---- MODULE Spec2Model ----
(***************************************************************************)
(* Model of the update orchestrator of update_vcp.py (VCPAutoUpdater):     *)
(* update_project, update_all_projects, _update_projects_sequential,       *)
(* _update_projects_parallel and the per-project git and deployment        *)
(* stages they drive, with the two global locks and the cancellation       *)
(* event.  Outcomes of external commands (git, docker) are inputs chosen   *)
(* by the environment; a command run while the cancellation event is set   *)
(* fails, as run_command returns failure without running it.               *)
(***************************************************************************)
EXTENDS Integers, Sequences, FiniteSets, TLC

----------------------------------------------------------------------------
(* Bounds *)

\* number of configured projects (self.projects), in dictionary order 1..n
NumProjects == 2

\* largest value of performance.max_workers that is explored
MaxWorkers == 2

\* number of runs of one project's git stage that are explored in a row
MaxRuns == 2

\* number of restores from the command line, all of the same checkpoint,
\* that are explored between two runs
MaxRestores == 2

\* number of Docker configuration files of the project that are followed, in
\* the order _check_docker_config_changed reads them (the others do not exist)
NumConfigFiles == 2

\* largest number of bytes in one configuration file
MaxLen == 2

\* number of services of the compose project
NumServices == 2

\* largest value of docker.max_restart_attempts that is explored
MaxAttempts == 2

\* largest number of polls the detailed health check makes before its
\* timeout (docker_health_check_timeout / docker_health_check_interval)
MaxPolls == 2

\* largest value of timeouts.network_retry_count that is explored
MaxRetries == 2

\* number of write calls json.dump makes for one state document
DocChunks == 2

\* largest number of stash entries ever created in the project
MaxStashes == 7

\* _cleanup_old_stashes: the number of auto-updater stashes that are kept
KeepStashes == 5

(* Program constants *)

\* ThreadPoolExecutor(max_workers=2) of the parallel deployment phase
DockerWorkers == 2

Projects == 1..NumProjects

None == "none"
NoOne == 0

\* UpdateStatus
Statuses ==
    {"success", "failed", "partial", "skipped", "no_changes", "in_progress", "cancelled"}

----------------------------------------------------------------------------
VARIABLES
    config,           \* mode of the run and the policies read from the config file
    projects,         \* p -> ProjectConfig (has_docker, origin_url configured)
    mainpc,           \* position of the main thread
    idx,              \* loop index of the main thread (project loop, future loop)
    task,             \* p -> position of the thread working on project p
    res,              \* p -> the UpdateResult object being built for p
    git_results,      \* p -> entry of the git_results dict (NoResult if absent)
    dfut,             \* docker_futures: projects submitted to the deployment pool
    results,          \* the list `results` built by the run
    update_results,   \* self.update_results (entries of this run)
    update_stats,     \* self.update_stats: status -> count
    ret,              \* value returned by update_all_projects
    exit_code,        \* exit_code of main (0 until an action sets it)
    shutdown_event,   \* self.shutdown_event
    should_cancel,    \* self.should_cancel
    git_lock,         \* holder of _global_git_lock
    docker_lock,      \* holder of _global_docker_lock
    rollback_status,  \* p -> rollback_info[p]["status"]
    git_outcome,      \* p -> what _perform_git_update returned for p in this run
    deploy_outcome,   \* p -> what _perform_docker_deployment did for p in this run
    restored,         \* p -> whether _handle_git_failure restored a checkpoint
    docker_seen,      \* last answer of check_docker_availability seen by the orchestrator
    cancel_snapshot   \* p -> where p stood when the cancellation event was first set

\* State of one project's repository and of its checkpoint map, followed at
\* the level of commits by the specification of the git stage (GitSpec)
VARIABLES
    general,          \* [general] options read by the git stage
    gpc,              \* position inside _perform_git_update ("idle" outside it)
    head,             \* commit HEAD points to
    upstream,         \* commit upstream/<branch> points to
    next_commit,      \* the next commit id not yet used
    ancestors,        \* commit -> the commits reachable from it (itself included)
    git_checkpoints,  \* self.git_checkpoints[project]: kind -> commit_hash
    run_log,          \* stage operations and checkpoints of the current run, in order
    merge_log,        \* what merge_upstream_changes met and did in the current run
    git_ret,          \* value the last run of _perform_git_update returned
    restore_log,      \* the last restore_git_checkpoint call since the last run
    runs,             \* number of runs of the git stage started so far
    restores          \* number of restores from the command line since the last run

gitvars == <<general, gpc, head, upstream, next_commit, ancestors, git_checkpoints, run_log,
             merge_log, git_ret, restore_log, runs, restores>>

\* The Docker configuration files of one project and the cache file of their
\* hash, followed by the specification of the configuration check
\* (FingerprintSpec)
VARIABLES
    config_files,     \* file of the project directory -> its bytes (Absent if it does not exist)
    cache_file,       \* content of <project>_docker_config.hash (NoCache if it does not exist)
    check_log         \* what the last call of _check_docker_config_changed met and returned

fpvars == <<config_files, cache_file, check_log>>

\* One call of rebuild_and_start_docker with the health check it runs,
\* followed by the specification of the deployment (DeploySpec)
VARIABLES
    dcfg,             \* [docker] and [general] options the call reads
    dpc,              \* position inside rebuild_and_start_docker
    dlog              \* loop index and what the call did so far

deployvars == <<dcfg, dpc, dlog>>

\* One call of fetch_upstream_changes with the commands it runs, followed by
\* the specification of the fetch stage (FetchSpec)
VARIABLES
    netcfg,           \* [timeouts] and [network] options the call reads
    fetch_pc,         \* position inside fetch_upstream_changes
    fetch_log         \* loop index of run_command and what the call did so far

fetchvars == <<netcfg, fetch_pc, fetch_log>>

\* The worker threads of the parallel git phase around their accesses to the
\* shared maps and their calls of save_rollback_info, with the state file and
\* its temporary file, followed by the specification of the flushes (SaveSpec)
VARIABLES
    sv_pc,            \* worker thread -> its position
    sv_local,         \* worker thread -> locals of its save_rollback_info call
    sv_fs,            \* the directory of the state file and the files in it
    sv_shared         \* the two locks, the shared maps and the accesses made to them

savevars == <<sv_pc, sv_local, sv_fs, sv_shared>>

\* The stash of one project and the calls of check_git_status on it,
\* followed by the specification of the status check (StatusSpec)
VARIABLES
    stash_cfg,        \* auto_stash of the project and general.safe_merge_only
    stash_list,       \* the entries of `git stash list`, stash@{0} first
    status_log        \* what the last call of check_git_status met and did

stashvars == <<stash_cfg, stash_list, status_log>>

\* The threads of a fleet update at the level of the four locks, followed by
\* the specification of the locking (LockSpec)
VARIABLES
    th_pc,            \* thread -> its position in update_project
    th_lock,          \* lock -> the thread that holds it (NoOne if it is free)
    th_n              \* thread -> the indices of the loops it is in

thvars == <<th_pc, th_lock, th_n>>

\* what the fleet-level and the commit-level actions never touch
stagevars == <<fpvars, deployvars, fetchvars, savevars, stashvars, thvars>>

\* the fleet-level actions read the configuration and leave the commit-level
\* state alone: they follow a git stage by its outcome only
cfgvars == <<config, projects, gitvars, stagevars>>
mainvars == <<mainpc, idx, ret, exit_code>>
flagvars == <<shutdown_event, should_cancel, cancel_snapshot>>
lockvars == <<git_lock, docker_lock>>
listvars == <<results, update_results, update_stats>>
histvars == <<git_outcome, deploy_outcome, restored, docker_seen>>

fleetvars == <<config, projects, mainpc, idx, task, res, git_results, dfut, results,
               update_results, update_stats, ret, exit_code, shutdown_event,
               should_cancel, git_lock, docker_lock, rollback_status, git_outcome,
               deploy_outcome, restored, docker_seen, cancel_snapshot>>

\* the orchestrator's state other than the cancellation event
fleetrest == <<config, projects, mainvars, task, res, git_results, dfut, listvars,
               should_cancel, cancel_snapshot, lockvars, rollback_status, histvars>>

quietvars == <<fleetrest, stagevars>>

vars == <<fleetvars, gitvars, stagevars>>

----------------------------------------------------------------------------
(* UpdateResult *)

NoResult ==
    [project |-> NoOne, status |-> None, git_status |-> None, docker_status |-> None,
     error |-> None, start_time |-> FALSE, end_time |-> FALSE]

\* UpdateResult(project_name=p, status=IN_PROGRESS, start_time=now)
NewResult(p) ==
    [project |-> p, status |-> "in_progress", git_status |-> None, docker_status |-> None,
     error |-> None, start_time |-> TRUE, end_time |-> FALSE]

\* UpdateResult.duration: None unless both timestamps are set
duration(r) == IF r.start_time /\ r.end_time THEN "seconds" ELSE None

\* f"{value:.1f}" raises TypeError when value is None
FormatRaises(value) == value = None

\* result.status = st; result.error_message = err; result.end_time = now
Finish(r, st, err) == [r EXCEPT !.status = st, !.error = err, !.end_time = TRUE]

\* the cancelled placeholder of _update_projects_sequential
CancelledResult(p) ==
    [project |-> p, status |-> "cancelled", git_status |-> None, docker_status |-> None,
     error |-> None, start_time |-> TRUE, end_time |-> TRUE]

\* the default of git_results.get(..) in _update_projects_parallel
MissingGitResult(p) ==
    [project |-> p, status |-> "failed", git_status |-> None, docker_status |-> None,
     error |-> "no_git_result", start_time |-> FALSE, end_time |-> FALSE]

----------------------------------------------------------------------------
(* Repository and checkpoints *)

\* GitCheckpointType: the five stage kinds in the order the stage creates
\* them, then the two others
StageKinds ==
    <<"before_update", "after_remote_setup", "after_fetch", "after_merge", "after_push">>

Kinds == {StageKinds[i] : i \in 1..Len(StageKinds)} \union {"manual", "auto_backup"}

\* no commit recorded (the kind is absent from the map)
NoCommit == -1

NoRestore ==
    [kind |-> None, recorded |-> NoCommit, head_before |-> NoCommit,
     ok |-> FALSE, repeat |-> FALSE]

NoMerge == [conflict |-> FALSE, via |-> None, result |-> None, cmds |-> <<>>]

\* a fork before its first run: upstream/<branch> at commit 0, the local
\* branch at h (0: no commit of its own, 1: one commit on top of 0), nothing
\* recorded; a manual checkpoint may come with the rollback file that
\* __init__ loads
RepoInit(g, manual, h) ==
    /\ general = g
    /\ gpc = "idle"
    /\ head = h
    /\ upstream = 0
    /\ next_commit = 2
    /\ ancestors = (0 :> {0}) @@ (1 :> {0, 1})
    /\ git_checkpoints = [k \in Kinds |-> IF k = "manual" THEN manual ELSE NoCommit]
    /\ run_log = <<>>
    /\ merge_log = NoMerge
    /\ git_ret = None
    /\ restore_log = NoRestore
    /\ runs = 0
    /\ restores = 0

\* the defaults of the [general] section
DefaultGeneral == [backup_before_update |-> TRUE, auto_merge_conflicts |-> TRUE]

----------------------------------------------------------------------------
(* Docker configuration files and the cached hash *)

\* config_files of _check_docker_config_changed in the order they are read:
\* the compose file, then additional_configs
ConfigFileNames ==
    <<"docker-compose.yml", "Dockerfile", ".env", "docker-compose.override.yml",
      "requirements.txt">>

\* the files that are followed, by their position in ConfigFileNames
ConfigFiles == 1..NumConfigFiles

compose_file == 1

\* one byte value is followed: two contents differ by their length
Bytes == {0}

Contents == UNION {[1..n -> Bytes] : n \in 0..MaxLen}

Absent == [exists |-> FALSE, bytes |-> <<>>]

\* what a file can be made to hold: any of the contents for the compose
\* file, at most one byte for the other files
FileValues(f) ==
    {Absent} \union {[exists |-> TRUE, bytes |-> b] :
                        b \in {c \in Contents : f = compose_file \/ Len(c) <= 1}}

\* hashlib.md5(...).hexdigest(): the digest is named by the bytes it is the
\* digest of, so two byte strings have the same digest only if they are equal
md5(bytes) == [md5 |-> bytes]

NoCache == [exists |-> FALSE, text |-> md5(<<>>)]

NoCheck ==
    [calls |-> 0, seen |-> [f \in ConfigFiles |-> Absent], same |-> FALSE,
     first |-> FALSE, sound |-> FALSE, prev_sound |-> FALSE, result |-> FALSE]

\* no configuration check has run, the project directory holds no
\* configuration file
FingerprintAtRest ==
    /\ config_files = [f \in ConfigFiles |-> Absent]
    /\ cache_file = NoCache
    /\ check_log = NoCheck

----------------------------------------------------------------------------
(* Services and health check *)

Services == 1..NumServices

\* what a status command shows of one service: running without health
\* status or healthy, running and unhealthy, restarting, exited, or not
\* listed at all
ContainerStates == {"running", "unhealthy", "restarting", "exited", "unlisted"}

Unlisted == [s \in Services |-> "unlisted"]

Listed(obs) == {s \in Services : obs[s] # "unlisted"}

\* the words of the STATUS column of `docker compose ps` for a container, in
\* lower case (the patterns ignore case)
StatusWords(state) ==
    CASE state = "running" -> {"up"}
      [] state = "unhealthy" -> {"up", "unhealthy"}
      [] state = "restarting" -> {"restarting"}
      [] state = "exited" -> {"exited"}
      [] OTHER -> {}

\* stdout of `docker compose ps`, as the set of its words
PsText(obs) == UNION {StatusWords(obs[s]) : s \in Listed(obs)}

\* running_pattern.search(stdout) and not exit_pattern.search(stdout)
SimpleVerdict(stdout) ==
    /\ stdout \intersect {"up", "running", "healthy"} # {}
    /\ stdout \intersect {"exit", "exited", "stopped", "dead"} = {}

\* json.loads of the stdout of `docker compose ps --format json`: an array
\* of objects, or one object per line ("lines"), which loads as one object
\* when one container is listed and raises JSONDecodeError for more
JsonLoads(obs, fmt) ==
    IF fmt = "array" THEN "list"
    ELSE IF Cardinality(Listed(obs)) = 0 THEN "empty"
    ELSE IF Cardinality(Listed(obs)) = 1 THEN "object"
    ELSE "error"

\* the loop over the containers of a list: False at an exited one, True if
\* all are running and not unhealthy, another poll otherwise
ListVerdict(obs) ==
    IF \E s \in Listed(obs) : obs[s] = "exited" THEN "failed"
    ELSE IF \A s \in Listed(obs) : obs[s] = "running" THEN "passed"
    ELSE "again"

NoDeploy ==
    [attempt |-> 0, ups |-> 0, up_ok |-> FALSE, stops |-> {}, health_failed |-> {},
     polls |-> 0, mode |-> None, seen |-> Unlisted, health |-> None,
     cancel_seen |-> FALSE, available |-> TRUE, cleaned |-> <<>>, ret |-> None]

NoStatus ==
    [calls |-> 0, pushes |-> 0, dirty |-> FALSE, cmds |-> <<>>, created |-> 0, stash_ref |-> -1,
     before |-> <<>>, cleaned |-> FALSE, rollback |-> None, ret |-> None]

\* no status check has run; the defaults, and an empty stash
StashAtRest ==
    /\ stash_cfg = [auto_stash |-> TRUE, safe_merge_only |-> FALSE]
    /\ stash_list = <<>>
    /\ status_log = NoStatus

\* the worker threads of the pool
Threads == 1..MaxWorkers

\* _global_git_lock, _global_docker_lock, self.data_lock, self.log_lock
Locks == {"git", "docker", "data", "log"}

\* attempt of run_command's loop, attempt of rebuild_and_start_docker's loop,
\* iteration of the polling loop of _detailed_health_check: locals of the
\* calls, gone when the call returns
NoLoop == [retry |-> 0, attempt |-> 0, poll |-> 0]

\* no thread has started and every lock is free
LocksAtRest ==
    /\ th_pc = [t \in Threads |-> "idle"]
    /\ th_lock = [l \in Locks |-> NoOne]
    /\ th_n = [t \in Threads |-> NoLoop]

\* content of a file: what each of its DocChunks parts holds, Hole where
\* nothing was written, else the number of the document the part is from
Hole == 0
EmptyFile == [k \in 1..DocChunks |-> Hole]
Document(d) == [k \in 1..DocChunks |-> d]
NoFile == 0

NoSave == [doc |-> 0, handle |-> NoFile, pos |-> 0, back |-> None]

\* no worker has started: the state file holds the document of the last run
SaveAtRest ==
    /\ sv_pc = [t \in Threads |-> "idle"]
    /\ sv_local = [t \in Threads |-> NoSave]
    /\ sv_fs = [inodes |-> <<Document(1)>>, target |-> 1, tmp |-> NoFile]
    /\ sv_shared = [data_lock |-> NoOne, git_lock |-> NoOne, version |-> 1,
                    accesses |-> {}, lost |-> {}]

\* what one subprocess.run of `git fetch` can end in
FetchOutcomes == {"ok", "failed", "timeout", "exception"}

\* stderr of a failed `git fetch`, and the texts run_command returns in its
\* place: after a timeout, after an exception (str(e)), at a set cancellation
\* event, and after a loop that returned nowhere
GitStderrs ==
    {"fatal: unable to access: SSL certificate problem",
     "gnutls_handshake() failed: The TLS connection was non-properly terminated",
     "fatal: unable to access: Could not resolve host",
     ""}
TimeoutText == "command timed out"
ExceptionText == "[Errno 12] Cannot allocate memory"
CancelledText == "operation cancelled"
AllFailedText == "all retries failed"

\* substring in stderr.lower()
LowerContains(stderr, word) ==
    CASE stderr = "fatal: unable to access: SSL certificate problem" -> word = "ssl"
      [] stderr = "gnutls_handshake() failed: The TLS connection was non-properly terminated"
           -> word = "tls"
      [] OTHER -> FALSE

NoFetch ==
    [attempt |-> 0, first |-> 0, second |-> 0, ssl_off |-> FALSE, fallbacks |-> 0,
     first_stderr |-> "", last |-> None, stderr |-> "", cancel_seen |-> FALSE,
     ret |-> None, after_fetch |-> FALSE, handler |-> FALSE]

\* no fetch is running; the defaults
FetchAtRest ==
    /\ netcfg = [network_retry_count |-> 3, ssl_verify |-> TRUE]
    /\ fetch_pc = "idle"
    /\ fetch_log = NoFetch

\* no deployment is running; the defaults but one attempt
DeployAtRest ==
    /\ dcfg = [max_restart_attempts |-> 1, verify_docker_health |-> TRUE,
               use_simple_health_check |-> TRUE, health_polls |-> 1,
               rebuild_on_config_change |-> TRUE, auto_prune |-> FALSE,
               prune_scope |-> "project"]
    /\ dpc = "idle"
    /\ dlog = NoDeploy

----------------------------------------------------------------------------
(* Image cleaning *)

\* _prune_docker_resources
prune_docker_resources == <<"image prune", "container prune", "network prune">>

\* _clean_docker_images: the commands it runs; has_images tells whether
\* `images -q` listed an image
clean_docker_images(has_images) ==
    IF dcfg.prune_scope = "project"
    THEN <<"images -q">> \o (IF has_images THEN <<"rmi -f">> ELSE <<>>)
    ELSE IF dcfg.prune_scope = "global" THEN prune_docker_resources
    ELSE <<>>

\* variant: rebuild_and_start_docker cleans the images of every deployment
AutoPrune_Always(has_images) == clean_docker_images(has_images)

\* the head of rebuild_and_start_docker once the container tool was found:
\* the images are cleaned when auto_prune is set
AutoPrune(has_images) ==
    IF dcfg.auto_prune THEN clean_docker_images(has_images) ELSE <<>>

\* the listings of `images -q` that make a difference to the commands run
ImageListings ==
    IF dcfg.prune_scope = "project" /\ (dcfg.auto_prune \/ dcfg.rebuild_on_config_change)
    THEN BOOLEAN ELSE {FALSE}

----------------------------------------------------------------------------
(* State after construction, before main dispatches the update action *)

Modes == {"single", "sequential", "parallel"}

\* the orchestrator's state after construction, for configuration c and
\* project table pt
FleetInit(c, pt) ==
    /\ config = c
    /\ projects = pt
    /\ mainpc = "start"
    /\ idx = 1
    /\ task = [p \in Projects |-> "idle"]
    /\ res = [p \in Projects |-> NoResult]
    /\ git_results = [p \in Projects |-> NoResult]
    /\ dfut = <<>>
    /\ results = <<>>
    /\ update_results = <<>>
    /\ update_stats = [s \in Statuses |-> 0]
    /\ ret = None
    /\ exit_code = 0
    /\ shutdown_event = FALSE
    /\ should_cancel = FALSE
    /\ git_lock = NoOne
    /\ docker_lock = NoOne
    /\ rollback_status = [p \in Projects |-> None]
    /\ git_outcome = [p \in Projects |-> None]
    /\ deploy_outcome = [p \in Projects |-> None]
    /\ restored = [p \in Projects |-> FALSE]
    /\ docker_seen = None
    /\ cancel_snapshot = [p \in Projects |-> None]

\* the orchestrator is not running: one project is worked on from the
\* command line
FleetAtRest ==
    FleetInit([mode |-> "single", skip_unchanged_docker |-> TRUE,
               enable_parallel_docker |-> FALSE, interactive_mode |-> FALSE,
               max_workers |-> 1, target |-> 1],
              [p \in Projects |-> [has_docker |-> FALSE, origin_url |-> TRUE]])

Init ==
    /\ \E c \in [mode : Modes, skip_unchanged_docker : BOOLEAN,
                 enable_parallel_docker : BOOLEAN, interactive_mode : BOOLEAN,
                 max_workers : 1..MaxWorkers, target : Projects],
          pt \in [Projects -> [has_docker : BOOLEAN, origin_url : BOOLEAN]] :
         \* settings a mode never reads are held at one value
         /\ c.mode # "parallel" => (~c.enable_parallel_docker /\ c.max_workers = 1)
         /\ c.mode = "parallel" => ~c.interactive_mode
         \* parallel deployment never reads skip_unchanged_docker
         /\ (c.mode = "parallel" /\ c.enable_parallel_docker) => c.skip_unchanged_docker
         \* pool sizes explored: the widest and the one below it
         /\ c.mode = "parallel" => c.max_workers >= MaxWorkers - 1
         /\ c.mode # "single" => c.target = 1
         /\ FleetInit(c, pt)
    /\ RepoInit(DefaultGeneral, NoCommit, 1)
    /\ FingerprintAtRest
    /\ DeployAtRest
    /\ FetchAtRest
    /\ SaveAtRest
    /\ StashAtRest
    /\ LocksAtRest

----------------------------------------------------------------------------
(* update_project: return to its caller, and its tail *)

\* exit code main derives from the status update_project returned
SingleExitCode(r) == IF r.status \in {"failed", "cancelled"} THEN 1 ELSE 0

\* update_project returns r: main (single project) turns it into the exit
\* code; _update_projects_sequential appends it and moves to the next project
ProjectReturn(p, r) ==
    /\ res' = [res EXCEPT ![p] = r]
    /\ task' = [task EXCEPT ![p] = "done"]
    /\ IF config.mode = "single"
       THEN /\ mainpc' = "done"
            /\ exit_code' = SingleExitCode(r)
            /\ UNCHANGED <<results, idx>>
       ELSE /\ results' = Append(results, r)
            /\ idx' = idx + 1
            /\ mainpc' = "seq_loop"
            /\ UNCHANGED exit_code

\* except Exception in update_project: status failed with the message
ProjectException(p, r) ==
    /\ rollback_status' = [rollback_status EXCEPT ![p] = "exception"]
    /\ ProjectReturn(p, Finish(r, "failed", "exception"))

\* the tail of update_project after the git stage and the deployment, if any,
\* went through: the log line formats result.duration before end_time is set
ProjectSuccessTail(p, r) ==
    IF FormatRaises(duration(r))
    THEN ProjectException(p, r)
    ELSE /\ rollback_status' = [rollback_status EXCEPT ![p] = "success"]
         /\ ProjectReturn(p, Finish(r, "success", r.error))

\* update_project after _perform_git_update returned gs
UpdateProjectAfterGit(p, gs) ==
    LET r == [res[p] EXCEPT !.git_status = gs] IN
    IF gs = "raised"
    THEN ProjectException(p, res[p]) /\ UNCHANGED docker_seen
    ELSE IF gs = "failed"
    THEN /\ rollback_status' = [rollback_status EXCEPT ![p] = "git_failed"]
         /\ ProjectReturn(p, Finish(r, "failed", "git_failed"))
         /\ UNCHANGED docker_seen
    ELSE IF gs = "no_changes" /\ config.skip_unchanged_docker
    THEN /\ rollback_status' = [rollback_status EXCEPT ![p] = "no_changes"]
         /\ ProjectReturn(p, Finish(r, "no_changes", None))
         /\ UNCHANGED docker_seen
    ELSE IF projects[p].has_docker
    THEN \E avail \in BOOLEAN :
           /\ docker_seen' = (IF avail THEN "yes" ELSE "no")
           /\ IF avail
              THEN \* enters _perform_docker_deployment
                   /\ res' = [res EXCEPT ![p] = r]
                   /\ task' = [task EXCEPT ![p] = "wait_docker"]
                   /\ UNCHANGED <<rollback_status, mainpc, idx, results, exit_code>>
              ELSE ProjectSuccessTail(p, [r EXCEPT !.status = "partial",
                                                   !.docker_status = "skipped"])
    ELSE ProjectSuccessTail(p, r) /\ UNCHANGED docker_seen

\* update_project after _perform_docker_deployment returned (or raised)
UpdateProjectAfterDeploy(p, d) ==
    IF d = "raised"
    THEN ProjectException(p, res[p])
    ELSE IF d = "failed"
    THEN /\ rollback_status' = [rollback_status EXCEPT ![p] = "docker_failed"]
         /\ ProjectReturn(p, Finish([res[p] EXCEPT !.docker_status = "failed"],
                                    "partial", "docker_failed"))
    ELSE ProjectSuccessTail(p, [res[p] EXCEPT !.docker_status = "success"])

----------------------------------------------------------------------------
(* update_project: entry *)

\* update_project up to its call of _perform_git_update
UpdateProjectBegin(p) ==
    LET r == NewResult(p) IN
    IF ~projects[p].origin_url
    THEN /\ ProjectReturn(p, Finish(r, "failed", "no_origin"))
         /\ UNCHANGED rollback_status
    ELSE \E confirm \in (IF config.interactive_mode THEN BOOLEAN ELSE {TRUE}) :
           IF ~confirm
           THEN /\ ProjectReturn(p, Finish(r, "cancelled", "user_cancel"))
                /\ UNCHANGED rollback_status
           ELSE /\ rollback_status' = [rollback_status EXCEPT ![p] = "in_progress"]
                /\ res' = [res EXCEPT ![p] = r]
                /\ task' = [task EXCEPT ![p] = "wait_git"]
                /\ mainpc' = "in_project"
                /\ UNCHANGED <<idx, results, exit_code>>

\* main with --project: update_project(matched_project)
SingleStart ==
    /\ mainpc = "start"
    /\ config.mode = "single"
    /\ UpdateProjectBegin(config.target)
    /\ UNCHANGED <<cfgvars, git_results, dfut, update_results, update_stats, ret,
                   flagvars, lockvars, histvars>>

----------------------------------------------------------------------------
(* _perform_git_update_only: entry and tail (worker of the git pool) *)

GitRunning == {"wait_git", "status", "remotes", "fetch", "merge", "push"}

\* the worker without the origin URL test of _perform_git_update_only
WorkerStartGit_NoOriginCheck(p) ==
    /\ config.mode = "parallel"
    /\ task[p] = "queued"
    /\ \A q \in Projects : q < p => task[q] # "queued"
    /\ Cardinality({q \in Projects : task[q] \in GitRunning}) < config.max_workers
    /\ res' = [res EXCEPT ![p] = NewResult(p)]
    /\ task' = [task EXCEPT ![p] = "wait_git"]
    /\ rollback_status' = [rollback_status EXCEPT ![p] = "in_progress"]
    /\ UNCHANGED <<cfgvars, mainvars, git_results, dfut, listvars, flagvars,
                   lockvars, histvars>>

\* a pool worker takes the next queued project (FIFO) when one is free
WorkerStartGit(p) ==
    /\ config.mode = "parallel"
    /\ task[p] = "queued"
    /\ \A q \in Projects : q < p => task[q] # "queued"
    /\ Cardinality({q \in Projects : task[q] \in GitRunning}) < config.max_workers
    /\ IF ~projects[p].origin_url
       THEN /\ res' = [res EXCEPT ![p] = Finish(NewResult(p), "failed", "no_origin")]
            /\ task' = [task EXCEPT ![p] = "git_done"]
            /\ UNCHANGED rollback_status
       ELSE /\ res' = [res EXCEPT ![p] = NewResult(p)]
            /\ task' = [task EXCEPT ![p] = "wait_git"]
            /\ rollback_status' = [rollback_status EXCEPT ![p] = "in_progress"]
    /\ UNCHANGED <<cfgvars, mainvars, git_results, dfut, listvars, flagvars,
                   lockvars, histvars>>

\* rollback_info[p]["status"] written by _perform_git_update_only
GitOnlyRollbackStatus(gs, old) ==
    CASE gs = "failed" -> "git_failed"
      [] gs = "no_changes" -> "no_changes"
      [] gs = "success" -> "git_success"
      [] OTHER -> old

\* _perform_git_update_only after _perform_git_update returned gs (or raised)
GitUpdateOnlyTail(p, gs) ==
    /\ res' = [res EXCEPT ![p] =
                 IF gs = "raised"
                 THEN Finish(res[p], "failed", "exception")
                 ELSE Finish([res[p] EXCEPT !.git_status = gs], gs, None)]
    /\ rollback_status' =
         [rollback_status EXCEPT ![p] = GitOnlyRollbackStatus(gs, rollback_status[p])]
    /\ task' = [task EXCEPT ![p] = "git_done"]
    /\ UNCHANGED <<mainpc, idx, results, exit_code, docker_seen>>

----------------------------------------------------------------------------
(* _perform_git_update, inside _global_git_lock *)

\* run_command returns failure without running anything once the event is set
CommandMaySucceed == ~shutdown_event

\* variant: the git stage is entered without waiting for the lock
GitAcquire_NoLock(p) ==
    /\ task[p] = "wait_git"
    /\ git_lock' = p
    /\ task' = [task EXCEPT ![p] = "status"]
    /\ UNCHANGED <<cfgvars, mainvars, res, git_results, dfut, listvars, flagvars,
                   docker_lock, rollback_status, histvars>>

\* with _global_git_lock: entry
GitAcquire(p) ==
    /\ task[p] = "wait_git"
    /\ git_lock = NoOne
    /\ git_lock' = p
    /\ task' = [task EXCEPT ![p] = "status"]
    /\ UNCHANGED <<cfgvars, mainvars, res, git_results, dfut, listvars, flagvars,
                   docker_lock, rollback_status, histvars>>

\* the stage goes on to its next step
GitContinue(p, next) ==
    /\ task' = [task EXCEPT ![p] = next]
    /\ UNCHANGED <<mainvars, res, results, git_lock, rollback_status, histvars>>

\* _perform_git_update returns gs (or raises): the lock is released and the
\* caller goes on
GitEnd(p, gs, rst) ==
    /\ git_lock' = NoOne
    /\ git_outcome' = [git_outcome EXCEPT ![p] = gs]
    /\ restored' = [restored EXCEPT ![p] = rst]
    /\ UNCHANGED deploy_outcome
    /\ ret' = ret
    /\ IF config.mode = "parallel"
       THEN GitUpdateOnlyTail(p, gs)
       ELSE UpdateProjectAfterGit(p, gs)

\* _handle_git_failure: tries the checkpoints in priority order; whether one
\* was restored does not change what the stage returns
HandleGitFailure(p) ==
    \E rst \in BOOLEAN :
      /\ rst => CommandMaySucceed
      /\ GitEnd(p, "failed", rst)

GitFrame == UNCHANGED <<cfgvars, git_results, dfut, update_results, update_stats,
                        flagvars, docker_lock>>

\* 1. check_git_status (and the backup that follows it)
CheckGitStatus(p) ==
    /\ task[p] = "status"
    /\ \E out \in {"ok", "fail", "raise"} :
         /\ out = "ok" => CommandMaySucceed
         /\ CASE out = "ok" -> GitContinue(p, "remotes")
              [] out = "fail" -> GitEnd(p, "failed", FALSE)
              [] out = "raise" -> GitEnd(p, "raised", FALSE)
    /\ GitFrame

\* 3. setup_git_remotes
SetupGitRemotes(p) ==
    /\ task[p] = "remotes"
    /\ \E out \in {"ok", "fail", "raise"} :
         /\ out = "ok" => CommandMaySucceed
         /\ CASE out = "ok" -> GitContinue(p, "fetch")
              [] out = "fail" -> HandleGitFailure(p)
              [] out = "raise" -> GitEnd(p, "raised", FALSE)
    /\ GitFrame

\* 5. fetch_upstream_changes
FetchUpstream(p) ==
    /\ task[p] = "fetch"
    /\ \E out \in {"ok", "fail", "raise"} :
         /\ out = "ok" => CommandMaySucceed
         /\ CASE out = "ok" -> GitContinue(p, "merge")
              [] out = "fail" -> HandleGitFailure(p)
              [] out = "raise" -> GitEnd(p, "raised", FALSE)
    /\ GitFrame

\* 7. merge_upstream_changes
MergeUpstream(p) ==
    /\ task[p] = "merge"
    /\ \E out \in {"success", "no_changes", "failed", "raise"} :
         /\ out \in {"success", "no_changes"} => CommandMaySucceed
         /\ CASE out = "success" -> GitContinue(p, "push")
              [] out = "no_changes" -> GitEnd(p, "no_changes", FALSE)
              [] out = "failed" -> HandleGitFailure(p)
              [] out = "raise" -> GitEnd(p, "raised", FALSE)
    /\ GitFrame

\* 9. push_to_origin
PushToOrigin(p) ==
    /\ task[p] = "push"
    /\ \E out \in {"ok", "fail", "raise"} :
         /\ out = "ok" => CommandMaySucceed
         /\ CASE out = "ok" -> GitEnd(p, "success", FALSE)
              [] out = "fail" -> HandleGitFailure(p)
              [] out = "raise" -> GitEnd(p, "raised", FALSE)
    /\ GitFrame

----------------------------------------------------------------------------
(* _perform_docker_update_only and _perform_docker_deployment *)

\* docker_projects, in dictionary order
RECURSIVE DockerFrom(_)
DockerFrom(p) ==
    IF p > NumProjects THEN <<>>
    ELSE (IF projects[p].has_docker THEN <<p>> ELSE <<>>) \o DockerFrom(p + 1)

DockerProjects == DockerFrom(1)

\* the project the main thread is working on
Current ==
    CASE config.mode = "single" -> config.target
      [] config.mode = "sequential" -> idx
      [] OTHER -> DockerProjects[idx]

\* the result object _perform_docker_update_only builds from the git result
CopyOfGitResult(g) ==
    [g EXCEPT !.docker_status = None, !.error = None, !.end_time = FALSE]

\* variant: a failed deployment marks the whole run failed
DockerOnlyResult_FailedRun(r, d) ==
    CASE d = "ok" -> [r EXCEPT !.docker_status = "success", !.end_time = TRUE]
      [] OTHER -> [r EXCEPT !.status = "failed", !.docker_status = "failed",
                            !.error = "docker_failed", !.end_time = TRUE]

\* what _perform_docker_update_only makes of the deployment outcome d
DockerOnlyResult(r, d) ==
    CASE d = "ok" -> [r EXCEPT !.docker_status = "success", !.end_time = TRUE]
      [] d = "failed" -> [r EXCEPT !.status = "partial", !.docker_status = "failed",
                                   !.error = "docker_failed", !.end_time = TRUE]
      [] OTHER -> [r EXCEPT !.status = "partial", !.docker_status = "failed",
                            !.error = "exception", !.end_time = TRUE]

DockerOnlyRollbackStatus(d, old) ==
    CASE d = "ok" -> "success"
      [] d = "failed" -> "docker_failed"
      [] OTHER -> old

\* _perform_docker_update_only after the deployment: run by the main thread
\* in the sequential deployment loop, by a pool worker otherwise
DockerUpdateOnlyTail(p, d) ==
    LET r == DockerOnlyResult(res[p], d) IN
    /\ res' = [res EXCEPT ![p] = r]
    /\ rollback_status' =
         [rollback_status EXCEPT ![p] = DockerOnlyRollbackStatus(d, rollback_status[p])]
    /\ IF mainpc = "in_docker"
       THEN /\ results' = Append(results, r)
            /\ idx' = idx + 1
            /\ mainpc' = "docker_seq"
            /\ task' = [task EXCEPT ![p] = "done"]
       ELSE /\ task' = [task EXCEPT ![p] = "ddone"]
            /\ UNCHANGED <<results, idx, mainpc>>
    /\ UNCHANGED exit_code

\* variant: the deployment is entered without waiting for the lock
DeployAcquire_NoLock(p) ==
    /\ task[p] = "wait_docker"
    /\ docker_lock' = p
    /\ task' = [task EXCEPT ![p] = "deploy"]
    /\ UNCHANGED <<cfgvars, mainvars, res, git_results, dfut, listvars, flagvars,
                   git_lock, rollback_status, histvars>>

\* with _global_docker_lock: entry
DeployAcquire(p) ==
    /\ task[p] = "wait_docker"
    /\ docker_lock = NoOne
    /\ docker_lock' = p
    /\ task' = [task EXCEPT ![p] = "deploy"]
    /\ UNCHANGED <<cfgvars, mainvars, res, git_results, dfut, listvars, flagvars,
                   git_lock, rollback_status, histvars>>

\* _perform_docker_deployment inside _global_docker_lock: true, false, or an
\* exception that escapes it
DeployRun(p) ==
    /\ task[p] = "deploy"
    /\ \E d \in {"ok", "failed", "raised"} :
         /\ d = "ok" => CommandMaySucceed
         /\ deploy_outcome' = [deploy_outcome EXCEPT ![p] = d]
         /\ IF config.mode = "parallel"
            THEN DockerUpdateOnlyTail(p, d)
            ELSE UpdateProjectAfterDeploy(p, d)
    /\ docker_lock' = NoOne
    /\ UNCHANGED <<cfgvars, ret, git_results, dfut, update_results, update_stats,
                   flagvars, git_lock, git_outcome, restored, docker_seen>>

----------------------------------------------------------------------------
(* update_all_projects and _update_projects_sequential *)

\* reset of the run state, then the choice of the mode
UpdateAllStart ==
    /\ mainpc = "start"
    /\ config.mode # "single"
    /\ update_stats' = [s \in Statuses |-> 0]
    /\ should_cancel' = FALSE
    /\ shutdown_event' = FALSE
    /\ idx' = 1
    /\ IF config.mode = "parallel"
       THEN \* executor.submit for every project
            /\ task' = [p \in Projects |-> "queued"]
            /\ mainpc' = "git_phase"
       ELSE /\ mainpc' = "seq_loop"
            /\ UNCHANGED task
    /\ UNCHANGED <<cfgvars, ret, exit_code, res, git_results, dfut, results,
                   update_results, cancel_snapshot, lockvars, rollback_status, histvars>>

SeqLoopCancelled ==
    /\ mainpc = "seq_loop"
    /\ idx <= NumProjects
    /\ should_cancel \/ shutdown_event
    /\ results' = Append(results, CancelledResult(idx))
    /\ res' = [res EXCEPT ![idx] = CancelledResult(idx)]
    /\ task' = [task EXCEPT ![idx] = "done"]
    /\ idx' = idx + 1
    /\ UNCHANGED <<cfgvars, mainpc, ret, exit_code, git_results, dfut, update_results,
                   update_stats, flagvars, lockvars, rollback_status, histvars>>

SeqLoopStart ==
    /\ mainpc = "seq_loop"
    /\ idx <= NumProjects
    /\ ~(should_cancel \/ shutdown_event)
    /\ UpdateProjectBegin(idx)
    /\ UNCHANGED <<cfgvars, git_results, dfut, update_results, update_stats, ret,
                   flagvars, lockvars, histvars>>

SeqLoopEnd ==
    /\ mainpc = "seq_loop"
    /\ idx > NumProjects
    /\ mainpc' = "save"
    /\ UNCHANGED <<cfgvars, idx, ret, exit_code, task, res, git_results, dfut, listvars,
                   flagvars, lockvars, rollback_status, histvars>>

\* number of results with status s
RECURSIVE CountStatus(_, _)
CountStatus(rs, s) ==
    IF rs = <<>> THEN 0
    ELSE (IF Head(rs).status = s THEN 1 ELSE 0) + CountStatus(Tail(rs), s)

\* variant: a partial result also counts as a failure of the fleet
FleetVerdict_PartialFails(stats) ==
    stats["failed"] = 0 /\ stats["cancelled"] = 0 /\ stats["partial"] = 0

\* the verdict of update_all_projects
FleetVerdict(stats) == stats["failed"] = 0 /\ stats["cancelled"] = 0

\* update_all_projects after the results came back; main maps the verdict
\* to the exit code
SaveResults ==
    /\ mainpc = "save"
    /\ update_results' = update_results \o results
    /\ update_stats' = [s \in Statuses |-> CountStatus(results, s)]
    /\ ret' = (IF FleetVerdict(update_stats') THEN "True" ELSE "False")
    /\ exit_code' = (IF ret' = "True" THEN 0 ELSE 1)
    /\ mainpc' = "done"
    /\ UNCHANGED <<cfgvars, idx, task, res, git_results, dfut, results, flagvars,
                   lockvars, rollback_status, histvars>>

----------------------------------------------------------------------------
(* _update_projects_parallel *)

\* variant: every recorded git result lets the deployment run
Deployable_AnyStatus(g) == g # NoResult

\* a git result that lets the deployment run
Deployable(g) == g # NoResult /\ g.status \in {"success", "no_changes"}

\* as_completed yields a finished future; the loop breaks if the event is
\* set, else it stores the result in git_results
CollectGit(p) ==
    /\ mainpc = "git_phase"
    /\ task[p] = "git_done"
    /\ git_results[p] = NoResult
    /\ IF shutdown_event
       THEN mainpc' = "git_join" /\ UNCHANGED git_results
       ELSE git_results' = [git_results EXCEPT ![p] = res[p]] /\ UNCHANGED mainpc
    /\ UNCHANGED <<cfgvars, idx, ret, exit_code, task, res, dfut, listvars, flagvars,
                   lockvars, rollback_status, histvars>>

\* variant: the git pool is left as soon as one result is in
GitPhaseEnd_FirstResult ==
    /\ mainpc = "git_phase"
    /\ \E p \in Projects : git_results[p] # NoResult
    /\ mainpc' = "phase2"
    /\ UNCHANGED <<cfgvars, idx, ret, exit_code, task, res, git_results, dfut, listvars,
                   flagvars, lockvars, rollback_status, histvars>>

\* every future was yielded: the with block of the git pool is left
GitPhaseEnd ==
    /\ mainpc = "git_phase"
    /\ \A p \in Projects : git_results[p] # NoResult
    /\ mainpc' = "phase2"
    /\ UNCHANGED <<cfgvars, idx, ret, exit_code, task, res, git_results, dfut, listvars,
                   flagvars, lockvars, rollback_status, histvars>>

\* after the break the with block still waits for every submitted task
GitJoin ==
    /\ mainpc = "git_join"
    /\ \A p \in Projects : task[p] = "git_done"
    /\ mainpc' = "phase2"
    /\ UNCHANGED <<cfgvars, idx, ret, exit_code, task, res, git_results, dfut, listvars,
                   flagvars, lockvars, rollback_status, histvars>>

\* the docker projects that get a future in the parallel deployment phase
RECURSIVE SubmittedFrom(_)
SubmittedFrom(i) ==
    IF i > Len(DockerProjects) THEN <<>>
    ELSE (IF Deployable(git_results[DockerProjects[i]])
          THEN <<DockerProjects[i]>> ELSE <<>>) \o SubmittedFrom(i + 1)

\* the condition that opens the second phase
Phase2Check ==
    /\ mainpc = "phase2"
    /\ idx' = 1
    /\ IF DockerProjects = <<>>
       THEN /\ mainpc' = "tail"
            /\ UNCHANGED <<docker_seen, dfut, task>>
       ELSE \E avail \in BOOLEAN :
              /\ docker_seen' = (IF avail THEN "yes" ELSE "no")
              /\ IF avail /\ ~shutdown_event
                 THEN IF config.enable_parallel_docker
                      THEN /\ dfut' = SubmittedFrom(1)
                           /\ task' = [p \in Projects |->
                                         IF \E i \in 1..Len(dfut') : dfut'[i] = p
                                         THEN "dqueued" ELSE task[p]]
                           /\ mainpc' = "docker_par"
                      ELSE /\ mainpc' = "docker_seq"
                           /\ UNCHANGED <<dfut, task>>
                 ELSE /\ mainpc' = "tail"
                      /\ UNCHANGED <<dfut, task>>
    /\ UNCHANGED <<cfgvars, ret, exit_code, res, git_results, listvars, flagvars,
                   lockvars, rollback_status, git_outcome, deploy_outcome, restored>>

DockerSeqFrame ==
    UNCHANGED <<cfgvars, ret, exit_code, git_results, dfut, update_results,
                update_stats, flagvars, lockvars, rollback_status, histvars>>

\* sequential deployment loop: break on the event
DockerSeqBreak ==
    /\ mainpc = "docker_seq"
    /\ idx <= Len(DockerProjects)
    /\ shutdown_event
    /\ mainpc' = "tail"
    /\ UNCHANGED <<idx, task, res, results>>
    /\ DockerSeqFrame

\* sequential deployment loop: the git result is recorded as it is, either
\* because the code is unchanged and the policy skips the deployment, or
\* because the git stage did not succeed
DockerSeqRecord ==
    /\ mainpc = "docker_seq"
    /\ idx <= Len(DockerProjects)
    /\ ~shutdown_event
    /\ LET g == git_results[DockerProjects[idx]] IN
         /\ \/ ~Deployable(g)
            \/ g.status = "no_changes" /\ config.skip_unchanged_docker
         /\ results' = Append(results, g)
    /\ idx' = idx + 1
    /\ UNCHANGED <<mainpc, task, res>>
    /\ DockerSeqFrame

\* sequential deployment loop: _perform_docker_update_only in the main thread
DockerSeqDeploy ==
    /\ mainpc = "docker_seq"
    /\ idx <= Len(DockerProjects)
    /\ ~shutdown_event
    /\ LET p == DockerProjects[idx]
           g == git_results[p] IN
         /\ Deployable(g)
         /\ ~(g.status = "no_changes" /\ config.skip_unchanged_docker)
         /\ res' = [res EXCEPT ![p] = CopyOfGitResult(g)]
         /\ task' = [task EXCEPT ![p] = "wait_docker"]
    /\ mainpc' = "in_docker"
    /\ UNCHANGED <<idx, results>>
    /\ DockerSeqFrame

DockerSeqEnd ==
    /\ mainpc = "docker_seq"
    /\ idx > Len(DockerProjects)
    /\ mainpc' = "tail"
    /\ UNCHANGED <<idx, task, res, results>>
    /\ DockerSeqFrame

DockerRunning == {"wait_docker", "deploy"}

\* a worker of the deployment pool takes the next future (FIFO)
WorkerStartDocker(p) ==
    /\ task[p] = "dqueued"
    /\ \A q \in Projects : q < p => task[q] # "dqueued"
    /\ Cardinality({q \in Projects : task[q] \in DockerRunning}) < DockerWorkers
    /\ res' = [res EXCEPT ![p] = CopyOfGitResult(git_results[p])]
    /\ task' = [task EXCEPT ![p] = "wait_docker"]
    /\ UNCHANGED <<cfgvars, mainvars, git_results, dfut, listvars, flagvars, lockvars,
                   rollback_status, histvars>>

DockerParFrame ==
    UNCHANGED <<cfgvars, idx, ret, exit_code, task, res, git_results, dfut, listvars,
                flagvars, lockvars, rollback_status, histvars>>

\* parallel deployment loop: the event is tested before future.result()
DockerParTest ==
    /\ mainpc = "docker_par"
    /\ idx <= Len(dfut)
    /\ mainpc' = IF shutdown_event THEN "docker_join" ELSE "docker_wait"
    /\ DockerParFrame

\* parallel deployment loop: future.result() returns, the result is appended
DockerParCollect ==
    /\ mainpc = "docker_wait"
    /\ task[dfut[idx]] = "ddone"
    /\ results' = Append(results, res[dfut[idx]])
    /\ idx' = idx + 1
    /\ mainpc' = "docker_par"
    /\ UNCHANGED <<cfgvars, ret, exit_code, task, res, git_results, dfut,
                   update_results, update_stats, flagvars, lockvars, rollback_status,
                   histvars>>

DockerParEnd ==
    /\ mainpc = "docker_par"
    /\ idx > Len(dfut)
    /\ mainpc' = "tail"
    /\ DockerParFrame

\* after the break the with block waits for every submitted deployment
DockerJoin ==
    /\ mainpc = "docker_join"
    /\ \A i \in 1..Len(dfut) : task[dfut[i]] = "ddone"
    /\ mainpc' = "tail"
    /\ DockerParFrame

\* results of the projects without a container definition
RECURSIVE NonDockerFrom(_)
NonDockerFrom(p) ==
    IF p > NumProjects THEN <<>>
    ELSE (IF projects[p].has_docker THEN <<>>
          ELSE <<IF git_results[p] # NoResult THEN git_results[p]
                 ELSE MissingGitResult(p)>>) \o NonDockerFrom(p + 1)

AppendNonDocker ==
    /\ mainpc = "tail"
    /\ results' = results \o NonDockerFrom(1)
    /\ mainpc' = "save"
    /\ UNCHANGED <<cfgvars, idx, ret, exit_code, task, res, git_results, dfut,
                   update_results, update_stats, flagvars, lockvars, rollback_status,
                   histvars>>

----------------------------------------------------------------------------
(* Cancellation *)

\* where a project stands when the event is set: not started, in a stage, or
\* past its stages
CancelClass(t) ==
    CASE t \in {"idle", "queued"} -> "pending"
      [] t \in GitRunning \union DockerRunning -> "running"
      [] OTHER -> "other"

TaskSnapshot == [p \in Projects |-> CancelClass(task[p])]

\* the shared cancellation event is set while a run is under way
RaiseCancel ==
    /\ mainpc \notin {"start", "done"}
    /\ ~shutdown_event
    /\ shutdown_event' = TRUE
    /\ cancel_snapshot' = TaskSnapshot
    /\ UNCHANGED <<cfgvars, mainvars, task, res, git_results, dfut, listvars,
                   should_cancel, lockvars, rollback_status, histvars>>

InPool == {"git_phase", "git_join", "docker_par", "docker_wait", "docker_join"}

\* except KeyboardInterrupt of update_all_projects, resp. of main
InterruptHandler ==
    /\ shutdown_event' = TRUE
    /\ should_cancel' = (config.mode # "single")
    /\ cancel_snapshot' = IF shutdown_event THEN cancel_snapshot ELSE TaskSnapshot
    /\ ret' = (IF config.mode = "single" THEN ret ELSE "False")
    /\ exit_code' = 1
    /\ mainpc' = "done"

\* KeyboardInterrupt in the main thread outside a pool: the stage the main
\* thread is running is abandoned (update_project marks its result
\* cancelled and re-raises), nothing is appended or saved
Interrupt ==
    /\ mainpc \notin {"start", "done", "kbd_join"} \union InPool
    /\ InterruptHandler
    /\ IF mainpc \in {"in_project", "in_docker"}
       THEN /\ task' = [task EXCEPT ![Current] = "done"]
            /\ res' = [res EXCEPT ![Current] =
                         IF mainpc = "in_project"
                         THEN Finish(res[Current], "cancelled", "user_interrupt")
                         ELSE res[Current]]
            /\ git_lock' = IF git_lock = Current THEN NoOne ELSE git_lock
            /\ docker_lock' = IF docker_lock = Current THEN NoOne ELSE docker_lock
       ELSE UNCHANGED <<task, res, lockvars>>
    /\ UNCHANGED <<cfgvars, idx, git_results, dfut, listvars, rollback_status, histvars>>

\* KeyboardInterrupt in the main thread inside a pool's with block: leaving
\* the block waits for the workers
InterruptPool ==
    /\ mainpc \in InPool
    /\ mainpc' = "kbd_join"
    /\ UNCHANGED <<cfgvars, idx, ret, exit_code, task, res, git_results, dfut, listvars,
                   flagvars, lockvars, rollback_status, histvars>>

PoolBusy ==
    \E p \in Projects : task[p] \in {"queued", "dqueued"} \union GitRunning \union DockerRunning

InterruptJoin ==
    /\ mainpc = "kbd_join"
    /\ ~PoolBusy
    /\ InterruptHandler
    /\ UNCHANGED <<cfgvars, idx, task, res, git_results, dfut, listvars, lockvars,
                   rollback_status, histvars>>

----------------------------------------------------------------------------
Next ==
    \/ SingleStart
    \/ UpdateAllStart
    \/ SeqLoopCancelled
    \/ SeqLoopStart
    \/ SeqLoopEnd
    \/ SaveResults
    \/ \E p \in Projects : WorkerStartGit(p)
    \/ \E p \in Projects : GitAcquire(p)
    \/ \E p \in Projects : CheckGitStatus(p)
    \/ \E p \in Projects : SetupGitRemotes(p)
    \/ \E p \in Projects : FetchUpstream(p)
    \/ \E p \in Projects : MergeUpstream(p)
    \/ \E p \in Projects : PushToOrigin(p)
    \/ \E p \in Projects : DeployAcquire(p)
    \/ \E p \in Projects : DeployRun(p)
    \/ \E p \in Projects : CollectGit(p)
    \/ GitPhaseEnd
    \/ GitJoin
    \/ Phase2Check
    \/ DockerSeqBreak
    \/ DockerSeqRecord
    \/ DockerSeqDeploy
    \/ DockerSeqEnd
    \/ \E p \in Projects : WorkerStartDocker(p)
    \/ DockerParTest
    \/ DockerParCollect
    \/ DockerParEnd
    \/ DockerJoin
    \/ AppendNonDocker
    \/ RaiseCancel
    \/ Interrupt
    \/ InterruptPool
    \/ InterruptJoin

Spec == Init /\ [][Next]_vars

TypeOK ==
    /\ mainpc \in {"start", "seq_loop", "in_project", "git_phase", "git_join", "phase2",
                   "docker_seq", "in_docker", "docker_par", "docker_wait", "docker_join",
                   "tail", "save", "kbd_join", "done"}
    /\ \A p \in Projects :
         /\ task[p] \in {"idle", "queued", "git_done", "dqueued", "ddone", "done"}
                          \union GitRunning \union DockerRunning
         /\ res[p].status \in Statuses \union {None}
    /\ git_lock \in Projects \union {NoOne}
    /\ docker_lock \in Projects \union {NoOne}
    /\ ret \in {None, "True", "False"}
    /\ exit_code \in {0, 1}

----------------------------------------------------------------------------
(* Vocabulary of the properties *)

Terminal == Statuses \ {"in_progress"}

\* update_all_projects returned (normally or through its interrupt handler)
FleetReturned == mainpc = "done" /\ config.mode # "single"

\* update_all_projects ran to its normal return
FleetCompleted == FleetReturned /\ ~should_cancel

\* positions of project p in the fleet's result list
Entries(p) == {i \in 1..Len(update_results) : update_results[i].project = p}

\* the run of project p is over
Ended(p) == task[p] \in {"done", "git_done", "ddone"}

\* p was inside a stage / had no stage started when the event was set
RunningAtCancel(p) == cancel_snapshot[p] = "running"
PendingAtCancel(p) == cancel_snapshot[p] = "pending"

\* the deployment controller was entered for p
DeployInvoked(p) == task[p] \in DockerRunning \/ deploy_outcome[p] # None

----------------------------------------------------------------------------
(* Fleet results and exit code *)

\* C1: after a fleet update completes, the result list holds exactly one
\* result for every configured project and every result has a terminal status
C1_OneTerminalResultPerProject ==
    FleetCompleted =>
      /\ \A p \in Projects : Cardinality(Entries(p)) = 1
      /\ \A i \in 1..Len(update_results) : update_results[i].status \in Terminal

\* C2: a fleet update exits non-zero whenever the run of some project ended
\* failed or cancelled
C2_FailureIsReported ==
    (FleetReturned /\ \E p \in Projects : res[p].status \in {"failed", "cancelled"})
      => exit_code # 0

\* C3: a completed fleet update whose recorded results are all success,
\* partial, no_changes or skipped exits with code 0
C3_PartialAloneIsSuccess ==
    (FleetCompleted /\ \A i \in 1..Len(update_results) :
         update_results[i].status \in {"success", "partial", "no_changes", "skipped"})
      => (ret = "True" /\ exit_code = 0)

\* a completed fleet update with a result for every project, one of them
\* partial, none failed or cancelled, and exit code 0
C3_Witness ==
    /\ FleetCompleted
    /\ \A p \in Projects : Entries(p) # {}
    /\ \A i \in 1..Len(update_results) :
         update_results[i].status \in {"success", "partial", "no_changes", "skipped"}
    /\ \E i \in 1..Len(update_results) : update_results[i].status = "partial"
    /\ exit_code = 0

----------------------------------------------------------------------------
(* Per-project status *)

\* C4: update_project returns status success and git_status success when the
\* git sync succeeded with changes and the deployment, if the project has
\* one, succeeded
C4_UpdateProjectSuccess ==
    \A p \in Projects :
      ( /\ config.mode # "parallel"
        /\ task[p] = "done"
        /\ git_outcome[p] = "success"
        /\ projects[p].has_docker => deploy_outcome[p] = "ok" )
      => (res[p].status = "success" /\ res[p].git_status = "success")

\* C5: a project whose git stage succeeded (with or without changes) and
\* whose deployment returned failure ends partial with docker_status failed,
\* in the result object and in every entry recorded for it
C5_DeployFailureIsPartial ==
    \A p \in Projects :
      (git_outcome[p] \in {"success", "no_changes"} /\ deploy_outcome[p] = "failed")
      => /\ res[p].status = "partial"
         /\ res[p].docker_status = "failed"
         /\ \A i \in 1..Len(results) :
              results[i].project = p => results[i].status = "partial"

\* a finished parallel fleet update with a project whose git stage succeeded,
\* whose deployment failed and that is recorded as partial
C5_Witness ==
    /\ FleetCompleted
    /\ config.mode = "parallel"
    /\ \E p \in Projects :
         /\ git_outcome[p] = "success"
         /\ deploy_outcome[p] = "failed"
         /\ \E i \in Entries(p) : update_results[i].status = "partial"
                                  /\ update_results[i].docker_status = "failed"

\* C6: a project whose git stage failed ends failed, restored or not, and
\* the deployment controller is entered only after a git outcome of success
\* or no_changes
C6_GitFailureEndsFailed ==
    \A p \in Projects :
      /\ git_outcome[p] = "failed" =>
           /\ res[p].status = "failed"
           /\ ~DeployInvoked(p)
           /\ \A i \in 1..Len(results) :
                results[i].project = p => results[i].status = "failed"
      /\ DeployInvoked(p) => git_outcome[p] \in {"success", "no_changes"}

\* a fleet update is over, one project failed in git after a checkpoint was
\* restored, and another project was deployed
C6_Witness ==
    /\ FleetCompleted
    /\ \E p, q \in Projects :
         /\ git_outcome[p] = "failed" /\ restored[p]
         /\ \E i \in Entries(p) : update_results[i].status = "failed"
         /\ deploy_outcome[q] = "ok"

\* C7: with the skip-unchanged policy set, a project whose git stage reports
\* no_changes ends no_changes and is never deployed
C7_UnchangedIsNotDeployed ==
    \A p \in Projects :
      (config.skip_unchanged_docker /\ git_outcome[p] = "no_changes")
      => /\ ~DeployInvoked(p)
         /\ res[p].status = "no_changes"

\* C8: a project without a container definition ends with the status its
\* git stage returned
C8_NoDockerEndsAtGitOutcome ==
    \A p \in Projects :
      ( /\ ~projects[p].has_docker
        /\ Ended(p)
        /\ git_outcome[p] \in {"success", "no_changes", "failed"} )
      => res[p].status = git_outcome[p]

----------------------------------------------------------------------------
(* Cancellation *)

\* C9: every project that had no stage started when the cancellation event
\* was set is recorded once, as cancelled, when the fleet update returns
C9_PendingEndsCancelled ==
    (FleetReturned /\ shutdown_event) =>
      \A p \in Projects :
        PendingAtCancel(p) =>
          /\ Cardinality(Entries(p)) = 1
          /\ \A i \in Entries(p) : update_results[i].status = "cancelled"

\* C10: a project that was inside a stage when the cancellation event was
\* set is recorded in the fleet's results with the terminal status its run
\* reached
C10_RunningIsRecorded ==
    (FleetReturned /\ shutdown_event) =>
      \A p \in Projects :
        RunningAtCancel(p) =>
          /\ res[p].status \in Terminal
          /\ \E i \in Entries(p) : update_results[i].status = res[p].status

----------------------------------------------------------------------------
(* Exceptions and projects without origin URL *)

\* C23: a project in whose git stage or deployment an exception was raised
\* ends failed with the exception's message
C23_ExceptionEndsFailed ==
    \A p \in Projects :
      (Ended(p) /\ (git_outcome[p] = "raised" \/ deploy_outcome[p] = "raised"))
      => (res[p].status = "failed" /\ res[p].error = "exception")

----------------------------------------------------------------------------
(* Concurrency *)

\* positions of a git stage inside _global_git_lock
InGitSection == GitRunning \ {"wait_git"}

GitStagesInProgress == {p \in Projects : task[p] \in GitRunning}

\* C11: at most max_workers git stages are in progress at any time, and at
\* most one project is inside the global git critical section, which it holds
C11_GitPoolAndLock ==
    /\ Cardinality(GitStagesInProgress) <= config.max_workers
    /\ \A p, q \in Projects :
         (task[p] \in InGitSection /\ task[q] \in InGitSection) => p = q
    /\ \A p \in Projects : task[p] \in InGitSection => git_lock = p

\* a pool of two workers is full: one project inside the section, one waiting
\* for the lock
C11_Witness ==
    /\ config.mode = "parallel"
    /\ config.max_workers = 2
    /\ \E p, q \in Projects :
         /\ task[p] \in InGitSection
         /\ task[q] = "wait_git"
         /\ git_lock = p

\* C12: no two projects are inside _perform_docker_deployment's critical
\* section at the same time, whatever the deployment mode
C12_OneDeploymentAtATime ==
    /\ \A p, q \in Projects : (task[p] = "deploy" /\ task[q] = "deploy") => p = q
    /\ \A p \in Projects : task[p] = "deploy" => docker_lock = p

\* parallel deployment: one project deploys, the other worker waits for the lock
C12_Witness ==
    /\ config.mode = "parallel"
    /\ config.enable_parallel_docker
    /\ \E p, q \in Projects :
         /\ task[p] = "deploy"
         /\ task[q] = "wait_docker"
         /\ docker_lock = p

\* project b's git stage ended with changes and its deployment has not started
DeployDue(b) ==
    /\ projects[b].has_docker
    /\ task[b] = "git_done"
    /\ res[b].status = "success"
    /\ ~shutdown_event

DockerSkipped(p) ==
    /\ config.mode = "single"
    /\ config.target = p
    /\ mainpc = "done"
    /\ projects[p].has_docker
    /\ git_outcome[p] = "success"
    /\ docker_seen = "no"

\* C35: update_project for a project that can be deployed, whose git stage
\* succeeded and whose container tool is unavailable, returns status partial
\* with docker_status skipped, and rollback_info holds status docker_skipped
C35_DockerSkippedIsPartial ==
    \A p \in Projects :
      DockerSkipped(p) =>
        /\ res[p].status = "partial"
        /\ res[p].docker_status = "skipped"
        /\ rollback_status[p] = "docker_skipped"

----------------------------------------------------------------------------
(* The git stage at the level of commits: _perform_git_update,              *)
(* create_git_checkpoint, restore_git_checkpoint, _handle_git_failure,      *)
(* merge_upstream_changes.  One project; the stage runs inside the global   *)
(* git lock, so its steps are not interleaved with another project's.       *)

StageKindSet == {StageKinds[i] : i \in 1..Len(StageKinds)}

\* the repository and the checkpoint map as the stage's helpers pass them on
Cur == [head |-> head, cps |-> git_checkpoints, log |-> run_log]

Logged(s, ev, name) == [s EXCEPT !.log = Append(@, [ev |-> ev, name |-> name])]

Store(s) ==
    /\ head' = s.head
    /\ git_checkpoints' = s.cps
    /\ run_log' = s.log

\* create_git_checkpoint: records the current commit under the kind, unless
\* get_current_commit fails (ok = FALSE), in which case nothing is recorded
\* and the caller goes on
create_git_checkpoint(s, kind, ok) ==
    IF ok THEN Logged([s EXCEPT !.cps[kind] = s.head], "checkpoint", kind) ELSE s

\* variant: the current state is saved as auto_backup before the entry is
\* looked up
restore_git_checkpoint_BackupFirst(s, name, backup_ok, reset_ok) ==
    LET s1 == create_git_checkpoint(s, "auto_backup", backup_ok) IN
    IF s.cps[name] = NoCommit
    THEN [s |-> s1, ok |-> FALSE, kind |-> name, recorded |-> NoCommit]
    ELSE [s |-> IF reset_ok THEN [s1 EXCEPT !.head = s.cps[name]] ELSE s1,
          ok |-> reset_ok, kind |-> name, recorded |-> s.cps[name]]

\* restore_git_checkpoint: the entry is read first, then the current state is
\* saved as auto_backup, then HEAD is reset to the entry's commit
restore_git_checkpoint(s, name, backup_ok, reset_ok) ==
    IF s.cps[name] = NoCommit
    THEN [s |-> s, ok |-> FALSE, kind |-> name, recorded |-> NoCommit]
    ELSE LET checkpoint == s.cps[name]
             s1 == create_git_checkpoint(s, "auto_backup", backup_ok)
         IN [s |-> IF reset_ok THEN [s1 EXCEPT !.head = checkpoint] ELSE s1,
             ok |-> reset_ok, kind |-> name, recorded |-> checkpoint]

\* the checkpoints tried from the oldest to the newest
checkpoints_priority_OldestFirst ==
    <<"before_update", "after_remote_setup", "after_fetch", "after_merge", "after_push">>

\* _handle_git_failure: the order in which the checkpoints are tried
checkpoints_priority ==
    <<"after_push", "after_merge", "after_fetch", "after_remote_setup", "before_update">>

\* the for loop of _handle_git_failure: the first restore that succeeds ends it
RECURSIVE TryCheckpoints(_, _, _, _)
TryCheckpoints(s, i, backup_ok, resets) ==
    IF i > Len(checkpoints_priority)
    THEN [s |-> s, ok |-> FALSE, kind |-> None, recorded |-> NoCommit]
    ELSE LET name == checkpoints_priority[i]
             r0 == restore_git_checkpoint(s, name, backup_ok, name \in resets)
             r == [r0 EXCEPT !.s = Logged(@, IF r0.ok THEN "restored" ELSE "not_restored",
                                          name)]
         IN IF r.ok THEN r ELSE TryCheckpoints(r.s, i + 1, backup_ok, resets)

RestoreEntry(r, before, again) ==
    [kind |-> r.kind, recorded |-> r.recorded, head_before |-> before,
     ok |-> r.ok, repeat |-> again]

\* _perform_git_update returns st
GitReturn(st) ==
    /\ gpc' = "idle"
    /\ git_ret' = st

\* a stage operation failed: _handle_git_failure, then return FAILED.  The
\* reset of at most one kind is taken to succeed: the kinds tried before it
\* fail, which covers every end state of the loop
handle_git_failure(s, op) ==
    \E resets \in {{}} \union {{k} : k \in StageKindSet} :
      LET s0 == Logged(Logged(s, "op_failed", op), "handler", op)
          r == TryCheckpoints(s0, 1, CommandMaySucceed, resets) IN
      /\ resets # {} => CommandMaySucceed
      /\ Store(r.s)
      /\ restore_log' = RestoreEntry(r, head, FALSE)
      /\ GitReturn("failed")

\* a stage operation succeeded and its checkpoint, if any, is created:
\* get_current_commit, a read of the local repository, is taken to fail only
\* as every command does once the cancellation event is set
StageStep(op, kinds, next) ==
    LET s0 == Logged(Cur, "op_ok", op)
        s1 == IF kinds = {} THEN s0
              ELSE create_git_checkpoint(s0, CHOOSE k \in kinds : TRUE, CommandMaySucceed)
    IN /\ Store(s1)
       /\ gpc' = next
       /\ UNCHANGED <<git_ret, restore_log>>

GitStageFrame == UNCHANGED <<quietvars, shutdown_event, general, runs, restores>>

\* _perform_git_update is entered for a new run, by a process started for it
begin_git_update ==
    /\ gpc = "idle"
    /\ runs < MaxRuns
    /\ runs' = runs + 1
    /\ restores' = 0
    /\ shutdown_event' = FALSE
    /\ gpc' = "status"
    /\ run_log' = <<>>
    /\ merge_log' = NoMerge
    /\ restore_log' = NoRestore
    /\ git_ret' = "in_progress"
    /\ UNCHANGED <<quietvars, general, head, upstream, next_commit, ancestors,
                   git_checkpoints>>

\* the cancellation event is set while the stage runs
cancel_git_update ==
    /\ gpc # "idle"
    /\ ~shutdown_event
    /\ shutdown_event' = TRUE
    /\ UNCHANGED <<quietvars, gitvars>>

\* 1-2. check_git_status, then the backup and the before_update checkpoint if
\* backup_before_update is set; a failed check returns FAILED at once
check_git_status ==
    /\ gpc = "status"
    /\ \E ok \in BOOLEAN :
         /\ ok => CommandMaySucceed
         /\ IF ok
            THEN StageStep("check_git_status",
                           IF general.backup_before_update THEN {"before_update"} ELSE {},
                           "remotes")
            ELSE /\ Store(Logged(Cur, "op_failed", "check_git_status"))
                 /\ GitReturn("failed")
                 /\ UNCHANGED restore_log
    /\ UNCHANGED <<upstream, next_commit, ancestors, merge_log>>
    /\ GitStageFrame

\* variant: the after_remote_setup checkpoint is created before the result of
\* setup_git_remotes is tested
setup_git_remotes_CheckpointFirst ==
    /\ gpc = "remotes"
    /\ \E ok \in BOOLEAN :
         /\ ok => CommandMaySucceed
         /\ IF ok THEN StageStep("setup_git_remotes", {"after_remote_setup"}, "fetch")
            ELSE handle_git_failure(
                   create_git_checkpoint(Cur, "after_remote_setup", TRUE),
                   "setup_git_remotes")
    /\ UNCHANGED <<upstream, next_commit, ancestors, merge_log>>
    /\ GitStageFrame

\* 3-4. setup_git_remotes, then the after_remote_setup checkpoint
setup_git_remotes ==
    /\ gpc = "remotes"
    /\ \E ok \in BOOLEAN :
         /\ ok => CommandMaySucceed
         /\ IF ok THEN StageStep("setup_git_remotes", {"after_remote_setup"}, "fetch")
            ELSE handle_git_failure(Cur, "setup_git_remotes")
    /\ UNCHANGED <<upstream, next_commit, ancestors, merge_log>>
    /\ GitStageFrame

\* 5-6. fetch_upstream_changes, then the after_fetch checkpoint; a successful
\* fetch leaves upstream/<branch> where it was or moves it to new commits
fetch_upstream_changes ==
    /\ gpc = "fetch"
    /\ \E ok, moved \in BOOLEAN :
         /\ ok => CommandMaySucceed
         /\ IF ok
            THEN /\ StageStep("fetch_upstream_changes", {"after_fetch"}, "merge")
                 /\ IF moved
                    THEN /\ upstream' = next_commit
                         /\ next_commit' = next_commit + 1
                         /\ ancestors' = ancestors @@
                              (next_commit :> (ancestors[upstream] \union {next_commit}))
                    ELSE UNCHANGED <<upstream, next_commit, ancestors>>
            ELSE /\ ~moved
                 /\ handle_git_failure(Cur, "fetch_upstream_changes")
                 /\ UNCHANGED <<upstream, next_commit, ancestors>>
    /\ UNCHANGED merge_log
    /\ GitStageFrame

\* git merge upstream/<branch>: nothing to do when HEAD already contains the
\* upstream commit, a fast-forward when the upstream commit contains HEAD, a
\* merge commit on top of both otherwise
UpToDate == upstream \in ancestors[head]
FastForward == ~UpToDate /\ head \in ancestors[upstream]
Diverged == ~UpToDate /\ ~FastForward

\* the merge commit of HEAD and upstream/<branch>
MergeCommit ==
    /\ head' = next_commit
    /\ next_commit' = next_commit + 1
    /\ ancestors' = ancestors @@
         (next_commit :> (ancestors[head] \union ancestors[upstream] \union {next_commit}))

\* git reset --hard upstream/<branch>, and a fast-forward: HEAD moves to the
\* upstream commit
MoveToUpstream ==
    /\ head' = upstream
    /\ UNCHANGED <<next_commit, ancestors>>

\* 8. merge_upstream_changes returned "success": the after_merge checkpoint
MergeSucceeded(conflict, via, cmds) ==
    LET s0 == Logged([Cur EXCEPT !.head = head'], "op_ok", "merge_upstream_changes")
        s1 == create_git_checkpoint(s0, "after_merge", CommandMaySucceed)
    IN /\ git_checkpoints' = s1.cps
       /\ run_log' = s1.log
       /\ merge_log' = [conflict |-> conflict, via |-> via, result |-> "success",
                        cmds |-> cmds]
       /\ gpc' = "push"
       /\ UNCHANGED <<git_ret, restore_log>>

\* variant: "no_changes" is treated like "success"
MergeNoChanges_GoesOn ==
    LET s1 == create_git_checkpoint(Logged(Cur, "no_changes", "merge_upstream_changes"),
                                    "after_merge", CommandMaySucceed)
    IN /\ Store(s1)
       /\ merge_log' = [conflict |-> FALSE, via |-> "plain", result |-> "no_changes",
                     cmds |-> <<"merge">>]
       /\ gpc' = "push"
       /\ UNCHANGED <<next_commit, ancestors, git_ret, restore_log>>

\* merge_upstream_changes returned "no_changes": _perform_git_update returns
\* NO_CHANGES at once
MergeNoChanges ==
    /\ Store(Logged(Cur, "no_changes", "merge_upstream_changes"))
    /\ merge_log' = [conflict |-> FALSE, via |-> "plain", result |-> "no_changes",
                     cmds |-> <<"merge">>]
    /\ GitReturn("no_changes")
    /\ UNCHANGED <<next_commit, ancestors, restore_log>>

\* merge_upstream_changes returned "failed"
MergeFailed(conflict, cmds) ==
    /\ merge_log' = [conflict |-> conflict, via |-> None, result |-> "failed",
                     cmds |-> cmds]
    /\ handle_git_failure(Cur, "merge_upstream_changes")
    /\ UNCHANGED <<next_commit, ancestors>>

\* what a failed `git merge upstream/<branch>` leaves on stderr: git reports
\* the conflicting paths on stdout, or names the conflict on stderr as well,
\* and refuses unrelated histories on stderr
MergeStderr(out, stream) ==
    CASE out = "conflict" /\ stream = "stderr" -> "error: merge conflict"
      [] out = "unrelated" -> "fatal: refusing to merge unrelated histories"
      [] out = "error" -> "fatal: not something we can merge"
      [] OTHER -> ""

\* "conflict" in stderr.lower() or "unrelated histories" in stderr.lower()
MentionsConflict(stderr) ==
    stderr \in {"error: merge conflict", "fatal: refusing to merge unrelated histories"}

\* 7-8. merge_upstream_changes: the plain merge, and after a failure whose
\* stderr names a conflict, with auto_merge_conflicts, the abort and the two
\* strategies in turn
merge_upstream_changes ==
    /\ gpc = "merge"
    /\ \E out \in {"ok", "conflict", "unrelated", "error"}, stream \in {"stdout", "stderr"} :
         LET conflict == out \in {"conflict", "unrelated"}
             escalated == <<"merge", "merge --abort", "merge -X theirs">>
         IN
         \* a command that is not run reports neither a merge nor a conflict
         /\ out # "error" => CommandMaySucceed
         /\ out # "conflict" => stream = "stdout"
         /\ CASE out = "ok" /\ UpToDate -> MergeNoChanges
           [] out = "ok" /\ FastForward ->
                MoveToUpstream /\ MergeSucceeded(FALSE, "plain", <<"merge">>)
           [] out = "ok" /\ Diverged ->
                MergeCommit /\ MergeSucceeded(FALSE, "plain", <<"merge">>)
           [] conflict /\ Diverged ->
                IF ~MentionsConflict(MergeStderr(out, stream)) \/ ~general.auto_merge_conflicts
                THEN MergeFailed(TRUE, <<"merge">>)
                ELSE \E strategy \in {"theirs", "reset", "none"} :
                       /\ strategy # "none" => CommandMaySucceed
                       /\ CASE strategy = "theirs" ->
                                 MergeCommit /\ MergeSucceeded(TRUE, "theirs", escalated)
                            [] strategy = "reset" ->
                                 /\ MoveToUpstream
                                 /\ MergeSucceeded(TRUE, "reset",
                                                   Append(escalated, "reset --hard"))
                            [] OTHER -> MergeFailed(TRUE, Append(escalated, "reset --hard"))
           [] out = "error" -> MergeFailed(FALSE, <<"merge">>)
           [] OTHER -> FALSE
    /\ UNCHANGED upstream
    /\ GitStageFrame

\* 9-10. push_to_origin, then the after_push checkpoint and return SUCCESS
push_to_origin ==
    /\ gpc = "push"
    /\ \E ok \in BOOLEAN :
         /\ ok => CommandMaySucceed
         /\ IF ok
            THEN LET s1 == create_git_checkpoint(Logged(Cur, "op_ok", "push_to_origin"),
                                                 "after_push", CommandMaySucceed)
                 IN Store(s1) /\ GitReturn("success") /\ UNCHANGED restore_log
            ELSE handle_git_failure(Cur, "push_to_origin")
    /\ UNCHANGED <<upstream, next_commit, ancestors, merge_log>>
    /\ GitStageFrame

\* restore_to_checkpoint(project, name), by a process started for it from
\* the command line between runs
restore_to_checkpoint(name) ==
    /\ gpc = "idle"
    /\ restores < MaxRestores
    /\ restores > 0 => restore_log.kind = name
    /\ restores' = restores + 1
    /\ shutdown_event' = FALSE
    /\ \E reset_ok \in BOOLEAN :
         LET r == restore_git_checkpoint(Cur, name, TRUE, reset_ok) IN
         /\ head' = r.s.head
         /\ git_checkpoints' = r.s.cps
         /\ restore_log' =
              RestoreEntry(r, head, restore_log.ok /\ restore_log.kind = name)
    /\ UNCHANGED <<quietvars, general, gpc, upstream, next_commit, ancestors, run_log,
                   merge_log, git_ret, runs>>

GitInit ==
    /\ \E g \in [backup_before_update : BOOLEAN, auto_merge_conflicts : BOOLEAN],
          manual \in {NoCommit, 0}, h \in {0, 1} : RepoInit(g, manual, h)
    /\ FleetAtRest
    /\ FingerprintAtRest
    /\ DeployAtRest
    /\ FetchAtRest
    /\ SaveAtRest
    /\ StashAtRest
    /\ LocksAtRest

GitNext ==
    \/ begin_git_update
    \/ cancel_git_update
    \/ check_git_status
    \/ setup_git_remotes
    \/ fetch_upstream_changes
    \/ merge_upstream_changes
    \/ push_to_origin
    \/ \E name \in Kinds : restore_to_checkpoint(name)

GitSpec == GitInit /\ [][GitNext]_vars

----------------------------------------------------------------------------
(* Checkpoints *)

IsCheckpoint(i, kind) == run_log[i] = [ev |-> "checkpoint", name |-> kind]

\* the stage operation whose success the checkpoint of the n-th stage kind follows
OperationBefore ==
    <<"check_git_status", "setup_git_remotes", "fetch_upstream_changes",
      "merge_upstream_changes", "push_to_origin">>

\* C14: in a run, a checkpoint of a later stage kind is recorded only if the
\* checkpoint of the kind just before it was recorded earlier in the run
C14_CheckpointChainMonotonic ==
    \A i \in 1..Len(run_log), n \in 2..Len(StageKinds) :
      IsCheckpoint(i, StageKinds[n]) =>
        \E j \in 1..(i - 1) : IsCheckpoint(j, StageKinds[n - 1])

\* a later-stage checkpoint directly follows the success of its operation
FollowsItsOperation ==
    \A i \in 1..Len(run_log), n \in 2..Len(StageKinds) :
      IsCheckpoint(i, StageKinds[n]) =>
        /\ i > 1
        /\ run_log[i - 1] = [ev |-> "op_ok", name |-> OperationBefore[n]]

\* C15 (as stated): a later-stage checkpoint follows the success of its
\* operation, and no checkpoint of any kind is created after a stage failed
C15_NoCheckpointAfterFailure ==
    /\ FollowsItsOperation
    /\ \A i \in 1..Len(run_log) :
         run_log[i].ev = "op_failed" =>
           \A j \in (i + 1)..Len(run_log) : run_log[j].ev # "checkpoint"

\* C15 (amended): a later-stage checkpoint follows the success of its
\* operation, and after a stage failed no stage checkpoint is created; the
\* restore of the failure handler records an auto_backup checkpoint
C15_NoStageCheckpointAfterFailure ==
    /\ FollowsItsOperation
    /\ \A i \in 1..Len(run_log) :
         run_log[i].ev = "op_failed" =>
           \A j \in (i + 1)..Len(run_log) :
             /\ run_log[j].ev = "checkpoint" => run_log[j].name = "auto_backup"
             /\ run_log[j].ev # "op_ok"

\* the push failed after the after_merge checkpoint was created, and the
\* handler's restore recorded an auto_backup
C15_Witness ==
    /\ gpc = "idle"
    /\ \E i, j, k \in 1..Len(run_log) :
         /\ i < j /\ j < k
         /\ IsCheckpoint(i, "after_merge")
         /\ run_log[j] = [ev |-> "op_failed", name |-> "push_to_origin"]
         /\ IsCheckpoint(k, "auto_backup")

\* the restores the failure handler attempted in the run, in order
HandlerTries ==
    SelectSeq(run_log, LAMBDA e : e.ev \in {"restored", "not_restored"})

\* C27: the failure handler tries the checkpoints in the order after_push,
\* after_merge, after_fetch, after_remote_setup, before_update, and tries no
\* other after the first restore that succeeds
C27_RestoreOrder ==
    LET order == <<"after_push", "after_merge", "after_fetch", "after_remote_setup",
                   "before_update">>
        T == HandlerTries
    IN /\ Len(T) <= Len(order)
       /\ \A k \in 1..Len(T) :
            /\ T[k].name = order[k]
            /\ T[k].ev = "restored" => k = Len(T)
       /\ (T # <<>> /\ Len(T) < Len(order)) => T[Len(T)].ev = "restored"
       /\ (\E i \in 1..Len(run_log) : run_log[i].ev = "handler") => T # <<>>

\* the fetch of a second run failed; the restores of after_push, after_merge
\* and after_fetch (entries of the first run) failed, that of
\* after_remote_setup succeeded and ended the loop
C27_Witness ==
    /\ gpc = "idle"
    /\ runs = 2
    /\ \E i \in 1..Len(run_log) :
         run_log[i] = [ev |-> "handler", name |-> "fetch_upstream_changes"]
    /\ Len(HandlerTries) = 4
    /\ HandlerTries[4] = [ev |-> "restored", name |-> "after_remote_setup"]
    /\ git_checkpoints["after_push"] # NoCommit
    /\ head = git_checkpoints["after_remote_setup"]

\* C28: every stage operation that fails is followed by the failure handler
\* before the stage returns failed
C28_FailureInvokesHandler ==
    \A i \in 1..Len(run_log) :
      run_log[i].ev = "op_failed" =>
        (i < Len(run_log) /\ run_log[i + 1] = [ev |-> "handler", name |-> run_log[i].name])

\* C31: after a merge conflict or an unrelated-history error, with
\* auto_merge_conflicts off the merge stage has failed having run the merge
\* alone; with it on the commands run were the merge, its abort and the
\* theirs-strategy merge, followed by the hard reset exactly when the theirs
\* merge did not succeed, and the stage failed only if both strategies
\* failed.  A merge that failed otherwise failed the stage after the merge
\* alone.
C31_ConflictEscalation ==
    LET escalated == <<"merge", "merge --abort", "merge -X theirs">>
        auto == general.auto_merge_conflicts
    IN merge_log.result # None =>
        /\ (merge_log.conflict /\ ~auto) =>
              (merge_log.result = "failed" /\ merge_log.cmds = <<"merge">>)
        /\ (merge_log.conflict /\ auto) =>
              /\ merge_log.via = "theirs" => merge_log.cmds = escalated
              /\ merge_log.via # "theirs" =>
                    merge_log.cmds = Append(escalated, "reset --hard")
              /\ merge_log.result = "failed" <=> merge_log.via = None
        /\ (~merge_log.conflict /\ merge_log.result = "failed") =>
              merge_log.cmds = <<"merge">>

\* the latest restore reached the reset step and failed there: a restore
\* started from the command line for a recorded kind, or the handler's loop
\* with at least one recorded stage kind, every reset of which failed
FailedAtReset ==
    /\ ~restore_log.ok
    /\ restore_log.head_before # NoCommit
    /\ \/ restore_log.recorded # NoCommit
       \/ /\ restore_log.kind = None
          /\ \E k \in StageKindSet : git_checkpoints[k] # NoCommit

\* C33: restore_git_checkpoint records the current commit as auto_backup
\* before the commands that change the repository, so after a restore that
\* failed at the reset step, restoring auto_backup brings HEAD to the commit
\* the project had when the failed restore began
C33_FailedRestoreRecoverable ==
    FailedAtReset =>
      LET r == restore_git_checkpoint(Cur, "auto_backup", TRUE, TRUE) IN
      /\ r.ok
      /\ r.s.head = restore_log.head_before

\* the handler of the current run restored a checkpoint, and no restore was
\* started from the command line since
HandlerRestored ==
    /\ git_ret = "failed"
    /\ restores = 0
    /\ restore_log.ok
    /\ restore_log.kind \in StageKindSet

\* C37: the checkpoint that _handle_git_failure restores was created during
\* the current run: the run recorded the kind before the handler ran, and
\* HEAD ends at the commit recorded then, not at one left by an earlier run
C37_RestoresOwnCheckpoint ==
    HandlerRestored =>
      \E i \in 1..Len(run_log) :
        /\ IsCheckpoint(i, restore_log.kind)
        /\ \E j \in (i + 1)..Len(run_log) : run_log[j].ev = "handler"

\* a step of restore_to_checkpoint for a kind the project has no record of
RestoreOfUnrecorded ==
    /\ restores' = restores + 1
    /\ git_checkpoints[restore_log'.kind] = NoCommit

\* C38: restoring a kind with no record fails and changes nothing: HEAD and
\* the checkpoint map, auto_backup included, are as before, no command of the
\* stage is logged, and the records of the fleet are untouched
C38_UnrecordedRestoreChangesNothing ==
    [][RestoreOfUnrecorded =>
         /\ ~restore_log'.ok
         /\ restore_log'.recorded = NoCommit
         /\ UNCHANGED <<head, git_checkpoints, upstream, ancestors, run_log, merge_log,
                        git_ret, quietvars>>]_vars

\* a restore of a kind without a record has returned, in a project that has
\* a record of another kind
C38_Witness ==
    /\ restores > 0
    /\ restore_log.kind \in Kinds
    /\ git_checkpoints[restore_log.kind] = NoCommit
    /\ ~restore_log.ok
    /\ \E k \in Kinds : git_checkpoints[k] # NoCommit

\* C16: when the merge reports nothing to do the stage returns no_changes and
\* the run creates neither an after_merge nor an after_push checkpoint
C16_NoChangesNoLaterCheckpoint ==
    merge_log.result = "no_changes" =>
      /\ git_ret = "no_changes"
      /\ gpc = "idle"
      /\ \A i \in 1..Len(run_log) :
           ~IsCheckpoint(i, "after_merge") /\ ~IsCheckpoint(i, "after_push")

\* a second run found nothing to merge; the after_push checkpoint in the map
\* is the one of the first run
C16_Witness ==
    /\ merge_log.result = "no_changes"
    /\ runs = 2
    /\ git_checkpoints["after_push"] # NoCommit
    /\ \E i \in 1..Len(run_log) : IsCheckpoint(i, "after_fetch")

\* C17: a successful restore leaves HEAD at the commit recorded for the
\* checkpoint, and a second restore of the same kind right after a successful
\* one leaves HEAD where the first left it
C17_RestoreIsIdempotent ==
    restore_log.ok =>
      /\ head = restore_log.recorded
      /\ restore_log.repeat => head = restore_log.head_before

\* C18: after a merge stage that met a conflict and resolved it, the local
\* branch head is the upstream branch head
C18_ConflictEndsAtUpstream ==
    ( /\ gpc = "push"
      /\ general.auto_merge_conflicts
      /\ merge_log.conflict
      /\ merge_log.result = "success" )
    => head = upstream

----------------------------------------------------------------------------
(* _check_docker_config_changed: the Docker configuration files of one       *)
(* project are edited between deployments, and every deployment runs the     *)
(* check under the docker lock.  A file that exists may fail to be read, the *)
(* cache file may fail to be read or written: inputs of the check.           *)

\* the bytes read from files f.. in order; a file that does not exist or
\* whose read raises contributes nothing
RECURSIVE combined_content(_, _, _)
combined_content(files, unreadable, f) ==
    IF f > NumConfigFiles THEN <<>>
    ELSE (IF files[f].exists /\ f \notin unreadable THEN files[f].bytes ELSE <<>>)
         \o combined_content(files, unreadable, f + 1)

Cached(h) == [exists |-> TRUE, text |-> h]

\* the comparison with a cache that already answers "changed" when there is
\* no cache file
CompareWithCache_FirstRunChanged(current_hash, cache_ok) ==
    IF ~cache_ok THEN [changed |-> FALSE, cache |-> cache_file]
    ELSE IF cache_file.exists /\ current_hash = cache_file.text
         THEN [changed |-> FALSE, cache |-> cache_file]
         ELSE [changed |-> TRUE, cache |-> Cached(current_hash)]

\* the comparison with the cached hash: the answer and the cache file
\* afterwards
CompareWithCache(current_hash, cache_ok) ==
    IF ~cache_ok THEN [changed |-> FALSE, cache |-> cache_file]
    ELSE IF cache_file.exists
         THEN IF current_hash # cache_file.text
              THEN [changed |-> TRUE, cache |-> Cached(current_hash)]
              ELSE [changed |-> FALSE, cache |-> cache_file]
         ELSE [changed |-> FALSE, cache |-> Cached(current_hash)]

ConfigCheck(unreadable, cache_ok) ==
    LET content == combined_content(config_files, unreadable, 1)
        out == IF ~config_files[compose_file].exists \/ content = <<>>
               THEN [changed |-> FALSE, cache |-> cache_file]
               ELSE CompareWithCache(md5(content), cache_ok)
        faultless == unreadable = {} /\ cache_ok
    IN  /\ \A f \in unreadable : config_files[f].exists
        \* one error at a time is explored
        /\ unreadable # {} => cache_ok
        /\ cache_file' = out.cache
        /\ check_log' =
              [calls |-> IF check_log.calls = 0 THEN 1 ELSE 2,
               seen |-> config_files,
               same |-> check_log.calls > 0 /\ check_log.seen = config_files,
               first |-> ~cache_file.exists,
               sound |-> faultless,
               prev_sound |-> check_log.sound,
               result |-> out.changed]

\* one call of _check_docker_config_changed
check_docker_config_changed(unreadable, cache_ok) ==
    /\ ConfigCheck(unreadable, cache_ok)
    /\ UNCHANGED <<config_files, fleetvars, gitvars, deployvars, fetchvars, savevars,
                   stashvars, thvars>>

\* a configuration file is written, created or removed between two checks
EditConfigFile(f, v) ==
    /\ v # config_files[f]
    /\ config_files' = [config_files EXCEPT ![f] = v]
    /\ UNCHANGED <<cache_file, check_log, fleetvars, gitvars, deployvars, fetchvars,
                   savevars, stashvars, thvars>>

FingerprintInit ==
    /\ FleetAtRest
    /\ RepoInit(DefaultGeneral, NoCommit, 1)
    /\ FingerprintAtRest
    /\ DeployAtRest
    /\ FetchAtRest
    /\ SaveAtRest
    /\ StashAtRest
    /\ LocksAtRest

FingerprintNext ==
    \/ \E f \in ConfigFiles : \E v \in FileValues(f) : EditConfigFile(f, v)
    \/ \E unreadable \in {{}} \union {{f} : f \in ConfigFiles}, cache_ok \in BOOLEAN :
          check_docker_config_changed(unreadable, cache_ok)

FingerprintSpec == FingerprintInit /\ [][FingerprintNext]_vars

----------------------------------------------------------------------------
(* _perform_docker_deployment: one deployment of the project under the      *)
(* docker lock, from the configuration check to the return of               *)
(* rebuild_and_start_docker, whose loop is followed by DeploySpec and ends   *)
(* here with an outcome that is an input.  stop_docker_services always       *)
(* returns True.  The files and the cache file are read and written without *)
(* an error: the errors of the check are followed by FingerprintSpec.        *)

perform_docker_deployment(unreadable, cache_ok, available, has_images, rebuilt) ==
    /\ ConfigCheck(unreadable, cache_ok)
    /\ LET config_changed == check_log'.result
           on_change == IF config_changed /\ dcfg.rebuild_on_config_change
                        THEN clean_docker_images(has_images) ELSE <<>>
           on_rebuild == IF available THEN AutoPrune(has_images) ELSE <<>>
       IN dlog' = [NoDeploy EXCEPT !.cleaned = on_change \o on_rebuild,
                                   !.ret = IF available /\ rebuilt THEN "True" ELSE "False"]
    /\ ~available => ~rebuilt
    /\ UNCHANGED <<config_files, dcfg, dpc, fleetvars, gitvars, fetchvars, savevars,
                   stashvars, thvars>>

DeploymentInit ==
    /\ FleetAtRest
    /\ RepoInit(DefaultGeneral, NoCommit, 1)
    /\ FingerprintAtRest
    /\ FetchAtRest
    /\ SaveAtRest
    /\ StashAtRest
    /\ LocksAtRest
    /\ dcfg \in [max_restart_attempts : {1}, verify_docker_health : {TRUE},
                  use_simple_health_check : {TRUE}, health_polls : {1},
                  rebuild_on_config_change : BOOLEAN, auto_prune : BOOLEAN,
                  prune_scope : {"project", "global"}]
    /\ dpc = "idle"
    /\ dlog = NoDeploy

DeploymentNext ==
    \/ \E f \in ConfigFiles : \E v \in FileValues(f) : EditConfigFile(f, v)
    \/ \E unreadable \in {{}}, cache_ok \in {TRUE}, available, rebuilt \in BOOLEAN :
         \E has_images \in ImageListings :
           perform_docker_deployment(unreadable, cache_ok, available, has_images, rebuilt)

DeploymentSpec == DeploymentInit /\ [][DeploymentNext]_vars

\* the removal and pruning commands
RemovalCommands == {"rmi -f", "image prune", "container prune", "network prune"}

\* a deployment ran on files that are, byte for byte, those of the deployment
\* before it; both read every file and the cache file without an error, and
\* the compose file is there
DeployedUnchanged ==
    /\ dlog.ret # None
    /\ check_log.calls = 2
    /\ check_log.same
    /\ check_log.sound /\ check_log.prev_sound
    /\ check_log.seen[compose_file].exists
    /\ combined_content(check_log.seen, {}, 1) # <<>>

NoRemoval == \A i \in 1..Len(dlog.cleaned) : dlog.cleaned[i] \notin RemovalCommands

SeenHash == md5(combined_content(check_log.seen, {}, 1))

\* the last check read every file and the compose file was there
Fingerprinted ==
    /\ check_log.seen[compose_file].exists
    /\ combined_content(check_log.seen, {}, 1) # <<>>

----------------------------------------------------------------------------
(* Configuration check: claims *)

C20_EveryChangeReported ==
    ( /\ check_log.calls = 2
      /\ ~check_log.same
      /\ check_log.sound /\ check_log.prev_sound
      /\ \A f \in ConfigFiles :
            check_log.seen[f].exists /\ check_log.seen[f].bytes # <<>>
      /\ ~check_log.first )
    => (check_log.result /\ cache_file = Cached(SeenHash))

----------------------------------------------------------------------------
(* rebuild_and_start_docker, verify_docker_health and the two health checks: *)
(* one call, followed command by command.  What a status command shows of   *)
(* the services is an input of every poll.                                   *)

DeployFrame ==
    UNCHANGED <<fleetrest, gitvars, fpvars, fetchvars, savevars, stashvars, thvars, dcfg>>

DeployReturn(l, r) ==
    /\ dpc' = "returned"
    /\ dlog' = [l EXCEPT !.ret = IF r THEN "True" ELSE "False"]

\* the end of a loop iteration that did not return
NextAttempt(l) ==
    LET a == l.attempt + 1 IN
    IF a >= dcfg.max_restart_attempts
    THEN DeployReturn([l EXCEPT !.attempt = a], FALSE)
    ELSE /\ dpc' = "attempt"
         /\ dlog' = [l EXCEPT !.attempt = a]

\* the services are stopped after every failed health check
HealthVerdict_AlwaysStops(l, healthy) ==
    IF healthy
    THEN DeployReturn([l EXCEPT !.health = "passed"], TRUE)
    ELSE NextAttempt([l EXCEPT !.health = "failed",
                               !.health_failed = @ \union {l.attempt},
                               !.stops = @ \union {l.attempt}])

\* what rebuild_and_start_docker does with the answer of verify_docker_health
HealthVerdict(l, healthy) ==
    IF healthy
    THEN DeployReturn([l EXCEPT !.health = "passed"], TRUE)
    ELSE NextAttempt([l EXCEPT !.health = "failed",
                               !.health_failed = @ \union {l.attempt},
                               !.stops = IF l.attempt < dcfg.max_restart_attempts - 1
                                         THEN @ \union {l.attempt} ELSE @])

\* rebuild_and_start_docker up to its loop
rebuild_and_start_docker ==
    /\ dpc = "idle"
    /\ dlog.ret = None
    /\ \E available \in BOOLEAN :
         IF available
         THEN \E has_images \in ImageListings :
                /\ dpc' = "attempt"
                /\ dlog' = [dlog EXCEPT !.cleaned = @ \o AutoPrune(has_images)]
         ELSE DeployReturn([dlog EXCEPT !.available = FALSE], FALSE)
    /\ UNCHANGED shutdown_event
    /\ DeployFrame

\* one iteration of the loop up to verify_docker_health: the test of the
\* cancellation event, then `up --build -d`
start_attempt ==
    /\ dpc = "attempt"
    /\ IF shutdown_event
       THEN DeployReturn([dlog EXCEPT !.cancel_seen = TRUE], FALSE)
       ELSE \E up_ok \in BOOLEAN :
              LET l == [dlog EXCEPT !.ups = @ + 1, !.up_ok = up_ok, !.health = None,
                                    !.seen = Unlisted, !.polls = 0, !.mode = None]
              IN IF ~up_ok THEN NextAttempt(l)
                 ELSE IF ~dcfg.verify_docker_health THEN HealthVerdict(l, TRUE)
                 ELSE /\ dpc' = IF dcfg.use_simple_health_check THEN "simple" ELSE "poll"
                      /\ dlog' = [l EXCEPT !.health = "pending",
                                           !.mode = IF dcfg.use_simple_health_check
                                                    THEN "simple" ELSE "detailed"]
    /\ UNCHANGED shutdown_event
    /\ DeployFrame

\* _simple_health_check: one `ps`, then the two patterns
simple_health_check ==
    /\ dpc = "simple"
    /\ \E ok \in BOOLEAN, obs \in [Services -> ContainerStates] :
         /\ ok => CommandMaySucceed
         /\ ~ok => obs = Unlisted
         /\ HealthVerdict([dlog EXCEPT !.seen = obs], ok /\ SimpleVerdict(PsText(obs)))
    /\ UNCHANGED shutdown_event
    /\ DeployFrame

\* _detailed_health_check: one iteration of its loop
detailed_health_check ==
    /\ dpc = "poll"
    /\ IF dlog.polls >= dcfg.health_polls \/ shutdown_event
       THEN HealthVerdict(dlog, FALSE)
       ELSE \E json_ok \in BOOLEAN, plain_ok \in BOOLEAN,
               obs \in [Services -> ContainerStates], fmt \in {"array", "lines"} :
              LET again == [dlog EXCEPT !.polls = @ + 1]
                  l == [again EXCEPT !.seen = obs]
                  loaded == JsonLoads(obs, fmt)
              IN \* inputs that are not read are held at one value
                 /\ json_ok => plain_ok
                 /\ ~json_ok => (obs = Unlisted /\ fmt = "array")
                 /\ IF ~json_ok
                    THEN IF plain_ok
                         THEN dpc' = "simple" /\ dlog' = again
                         ELSE dpc' = "poll" /\ dlog' = again
                    ELSE CASE loaded = "error" -> dpc' = "simple" /\ dlog' = l
                           [] loaded \in {"empty", "object"} -> dpc' = "poll" /\ dlog' = l
                           [] OTHER ->
                                IF ListVerdict(obs) = "again"
                                THEN dpc' = "poll" /\ dlog' = l
                                ELSE HealthVerdict(l, ListVerdict(obs) = "passed")
    /\ UNCHANGED shutdown_event
    /\ DeployFrame

\* the cancellation event is set while the deployment runs
cancel_deployment ==
    /\ dpc \notin {"idle", "returned"}
    /\ ~shutdown_event
    /\ shutdown_event' = TRUE
    /\ UNCHANGED <<dpc, dlog>>
    /\ DeployFrame

DeployInit ==
    /\ FleetAtRest
    /\ RepoInit(DefaultGeneral, NoCommit, 1)
    /\ FingerprintAtRest
    /\ FetchAtRest
    /\ SaveAtRest
    /\ StashAtRest
    /\ LocksAtRest
    /\ dcfg \in [max_restart_attempts : 1..MaxAttempts, verify_docker_health : BOOLEAN,
                  use_simple_health_check : BOOLEAN, health_polls : 1..MaxPolls,
                  rebuild_on_config_change : {TRUE}, auto_prune : BOOLEAN,
                  prune_scope : {"project", "global"}]
    \* options a configuration never reads are held at one value
    /\ ~dcfg.auto_prune => dcfg.prune_scope = "project"
    /\ ~dcfg.verify_docker_health => dcfg.use_simple_health_check
    /\ dcfg.use_simple_health_check => dcfg.health_polls = 1
    /\ dpc = "idle"
    /\ dlog = NoDeploy

DeployNext ==
    \/ rebuild_and_start_docker
    \/ start_attempt
    \/ simple_health_check
    \/ detailed_health_check
    \/ cancel_deployment

DeploySpec == DeployInit /\ [][DeployNext]_vars

----------------------------------------------------------------------------
(* Health check and restart policy *)

SeenState(state) == \E s \in Services : dlog.seen[s] = state

\* C21: in detailed mode, once the status output of a poll shows a service
\* in state "exited", the health check has failed: it has not gone on to wait
\* for, or to run, another status command.
C21_ExitedFailsAtOnce ==
    (dlog.mode = "detailed" /\ SeenState("exited")) => dlog.health = "failed"

\* C22: a health check entered in detailed mode has not passed while the
\* status output it last read shows a service in state "restarting",
\* whether it decided on the structured output or on the plain one.
C22_NeverPassesWhileRestarting ==
    (dlog.mode = "detailed" /\ dlog.health = "passed") => ~SeenState("restarting")

\* C29: rebuild_and_start_docker has issued at most max_restart_attempts
\* `up` commands; it has returned True exactly when an `up` succeeded and the
\* health check after it passed; the services were stopped after exactly
\* those failed health checks that were not in the last attempt; and it has
\* returned False when the attempts were used up or the cancellation event
\* was found set, and for no reason other than these or Docker being
\* unavailable.
C29_BoundedRestart ==
    /\ dlog.ups <= dcfg.max_restart_attempts
    /\ (dlog.ret = "True") <=> (dlog.up_ok /\ dlog.health = "passed")
    /\ dlog.ret = "True" => dpc = "returned"
    /\ dlog.stops = {a \in dlog.health_failed : a < dcfg.max_restart_attempts - 1}
    /\ (dpc = "returned" /\ (dlog.attempt >= dcfg.max_restart_attempts \/ dlog.cancel_seen))
          => dlog.ret = "False"
    /\ dlog.ret = "False"
          => \/ dlog.attempt >= dcfg.max_restart_attempts
             \/ dlog.cancel_seen
             \/ ~dlog.available
    /\ dpc # "returned" => dlog.attempt < dcfg.max_restart_attempts

\* the second attempt succeeded after the first one failed its health check
\* and the services were stopped
C29_Witness ==
    /\ dpc = "returned"
    /\ dlog.ret = "True"
    /\ dlog.ups = 2
    /\ dlog.health_failed = {0}
    /\ dlog.stops = {0}

----------------------------------------------------------------------------
(* fetch_upstream_changes: the commands it runs through run_command, one    *)
(* subprocess at a time, and what _perform_git_update does with its answer   *)

FetchFrame == UNCHANGED <<fleetrest, gitvars, fpvars, deployvars, savevars, stashvars, thvars,
                         netcfg>>

\* the fallback is applied whatever the failure output says
MentionsSSL_Always(stderr) == TRUE

\* "ssl" in stderr.lower() or "tls" in stderr.lower()
MentionsSSL(stderr) == LowerContains(stderr, "ssl") \/ LowerContains(stderr, "tls")

\* fetch_upstream_changes after the run_command that returned (ok, stderr)
RunCommandReturns(l, ok, stderr) ==
    LET l1 == [l EXCEPT !.stderr = stderr] IN
    IF ok
    THEN fetch_pc' = "returned" /\ fetch_log' = [l1 EXCEPT !.ret = "True"]
    ELSE IF fetch_pc = "first" /\ MentionsSSL(stderr)
         THEN fetch_pc' = "fallback" /\ fetch_log' = [l1 EXCEPT !.first_stderr = stderr]
         ELSE /\ fetch_pc' = "returned"
              /\ fetch_log' = [l1 EXCEPT !.ret = "False",
                                         !.first_stderr = IF fetch_pc = "first"
                                                          THEN stderr ELSE @]

\* fetch_upstream_changes up to the first `git fetch`
fetch_upstream_changes_begin ==
    /\ fetch_pc = "idle"
    /\ fetch_log.ret = None
    /\ fetch_pc' = "first"
    /\ fetch_log' = [fetch_log EXCEPT !.ssl_off = ~netcfg.ssl_verify]
    /\ UNCHANGED shutdown_event
    /\ FetchFrame

\* one iteration of the loop of run_command on `git fetch upstream`
run_command_fetch ==
    /\ fetch_pc \in {"first", "second"}
    /\ LET n == netcfg.network_retry_count
           i == fetch_log.attempt
       IN IF i >= n THEN RunCommandReturns(fetch_log, FALSE, AllFailedText)
          ELSE IF shutdown_event
          THEN RunCommandReturns([fetch_log EXCEPT !.cancel_seen = TRUE], FALSE, CancelledText)
          ELSE \E outcome \in FetchOutcomes, stderr \in GitStderrs :
                 LET l == IF fetch_pc = "first"
                          THEN [fetch_log EXCEPT !.first = @ + 1, !.last = outcome]
                          ELSE [fetch_log EXCEPT !.second = @ + 1, !.last = outcome]
                     text == CASE outcome = "timeout" -> TimeoutText
                               [] outcome = "exception" -> ExceptionText
                               [] OTHER -> stderr
                 IN \* the stderr of a command is read only after its failure
                    /\ outcome # "failed" => stderr = ""
                    /\ IF outcome = "ok" THEN RunCommandReturns(l, TRUE, "")
                       ELSE IF i = n - 1 THEN RunCommandReturns(l, FALSE, text)
                       ELSE /\ fetch_pc' = fetch_pc
                            /\ fetch_log' = [l EXCEPT !.attempt = i + 1]
    /\ UNCHANGED shutdown_event
    /\ FetchFrame

\* _configure_git_ssl, then the second `git fetch` is about to run
configure_git_ssl ==
    /\ fetch_pc = "fallback"
    /\ fetch_pc' = "second"
    /\ fetch_log' = [fetch_log EXCEPT !.fallbacks = @ + 1, !.attempt = 0]
    /\ UNCHANGED shutdown_event
    /\ FetchFrame

\* _perform_git_update after fetch_upstream_changes returned
continue_after_fetch ==
    /\ fetch_pc = "returned"
    /\ fetch_pc' = "done"
    /\ fetch_log' = IF fetch_log.ret = "True"
                    THEN [fetch_log EXCEPT !.after_fetch = TRUE]
                    ELSE [fetch_log EXCEPT !.handler = TRUE]
    /\ UNCHANGED shutdown_event
    /\ FetchFrame

\* the cancellation event is set while the fetch runs
cancel_fetch ==
    /\ fetch_pc \notin {"idle", "returned", "done"}
    /\ ~shutdown_event
    /\ shutdown_event' = TRUE
    /\ UNCHANGED <<fetch_pc, fetch_log>>
    /\ FetchFrame

FetchInit ==
    /\ FleetAtRest
    /\ RepoInit(DefaultGeneral, NoCommit, 1)
    /\ FingerprintAtRest
    /\ DeployAtRest
    /\ SaveAtRest
    /\ StashAtRest
    /\ LocksAtRest
    /\ netcfg \in [network_retry_count : 0..MaxRetries, ssl_verify : BOOLEAN]
    /\ fetch_pc = "idle"
    /\ fetch_log = NoFetch

FetchNext ==
    \/ fetch_upstream_changes_begin
    \/ run_command_fetch
    \/ configure_git_ssl
    \/ continue_after_fetch
    \/ cancel_fetch

FetchSpec == FetchInit /\ [][FetchNext]_vars

----------------------------------------------------------------------------
(* Fetch stage *)

FetchReturned == fetch_pc \in {"returned", "done"}

\* the failure outputs that mention SSL or TLS
SSLFailures ==
    {"fatal: unable to access: SSL certificate problem",
     "gnutls_handshake() failed: The TLS connection was non-properly terminated"}

\* C30: each of the two fetch invocations runs `git fetch` at most
\* network_retry_count times, and a fetch that failed without cancellation
\* used all of them; the SSL fallback was applied at most once, only after
\* a first invocation whose failure output mentions SSL or TLS, and the
\* second invocation ran only after it; the stage reported success exactly
\* when its last `git fetch` succeeded, and after a reported failure the
\* failure handler ran and no after_fetch checkpoint was created.
C30_FetchRetriesAndFallback ==
    /\ fetch_log.first <= netcfg.network_retry_count
    /\ fetch_log.second <= netcfg.network_retry_count
    /\ fetch_log.fallbacks <= 1
    /\ (fetch_log.fallbacks = 1 \/ fetch_pc = "fallback")
          => (fetch_log.first_stderr \in SSLFailures
              /\ fetch_log.first = netcfg.network_retry_count)
    /\ (fetch_log.second > 0 \/ fetch_pc = "second") => fetch_log.fallbacks = 1
    /\ (FetchReturned /\ fetch_log.ret = "False" /\ ~fetch_log.cancel_seen)
          => /\ fetch_log.first = netcfg.network_retry_count
             /\ fetch_log.fallbacks = 1 => fetch_log.second = netcfg.network_retry_count
    /\ FetchReturned => (fetch_log.ret = "True" <=> fetch_log.last = "ok")
    /\ FetchReturned <=> fetch_log.ret # None
    /\ fetch_log.after_fetch => fetch_log.ret = "True"
    /\ fetch_pc = "done" => (fetch_log.after_fetch <=> fetch_log.ret = "True")
    /\ fetch_pc = "done" => (fetch_log.handler <=> fetch_log.ret = "False")

\* a fetch that failed with a certificate error in all its attempts, got the
\* fallback, failed again in all its attempts and ended without checkpoint
C30_Witness ==
    /\ fetch_pc = "done"
    /\ fetch_log.ret = "False"
    /\ ~fetch_log.cancel_seen
    /\ fetch_log.first = 2
    /\ fetch_log.fallbacks = 1
    /\ fetch_log.second = 2
    /\ ~fetch_log.after_fetch

----------------------------------------------------------------------------
(* The worker threads of the parallel git phase: _perform_git_update_only   *)
(* around the git stage, create_git_checkpoint inside it, and the steps of  *)
(* save_rollback_info on the state file and its one temporary file           *)

SaveFrame ==
    UNCHANGED <<fleetvars, gitvars, fpvars, deployvars, fetchvars, stashvars, thvars>>

SharedMaps == {"rollback_info", "git_checkpoints", "update_stats", "update_results"}

\* an access of thread t, with whether t holds self.data_lock while it makes it
Access(t, what, mode) ==
    [thread |-> t, what |-> what, mode |-> mode, locked |-> sv_shared.data_lock = t]

\* a write of thread t to one of the shared maps
WriteShared(t, what) ==
    [sv_shared EXCEPT !.accesses = @ \union {Access(t, what, "write")},
                      !.version = @ + 1]

Goto(t, pc) == sv_pc' = [sv_pc EXCEPT ![t] = pc]

\* with self.data_lock: self.rollback_info[project_name] = {...}
RecordStart(t) ==
    /\ sv_pc[t] = "idle"
    /\ sv_shared.data_lock = NoOne
    /\ sv_shared' = [sv_shared EXCEPT !.data_lock = t,
                                      !.accesses = @ \union
                                         {[thread |-> t, what |-> "rollback_info",
                                           mode |-> "write", locked |-> TRUE]},
                                      !.version = @ + 1]
    /\ Goto(t, "in_lock")
    /\ UNCHANGED <<sv_local, sv_fs>>
    /\ SaveFrame

\* the end of the with block
RecordStartExit(t) ==
    /\ sv_pc[t] = "in_lock"
    /\ sv_shared' = [sv_shared EXCEPT !.data_lock = NoOne]
    /\ Goto(t, "wait_git")
    /\ UNCHANGED <<sv_local, sv_fs>>
    /\ SaveFrame

\* _perform_git_update: with _global_git_lock
GitStageEnter(t) ==
    /\ sv_pc[t] = "wait_git"
    /\ sv_shared.git_lock = NoOne
    /\ sv_shared' = [sv_shared EXCEPT !.git_lock = t]
    /\ Goto(t, "checkpoint")
    /\ UNCHANGED <<sv_local, sv_fs>>
    /\ SaveFrame

\* create_git_checkpoint: the entry is stored, then save_rollback_info is called
StoreCheckpoint(t) ==
    /\ sv_pc[t] = "checkpoint"
    /\ sv_shared' = WriteShared(t, "git_checkpoints")
    /\ Goto(t, "build")
    /\ sv_local' = [sv_local EXCEPT ![t] = [NoSave EXCEPT !.back = "git_exit"]]
    /\ UNCHANGED sv_fs
    /\ SaveFrame

\* the end of the git stage
GitStageExit(t) ==
    /\ sv_pc[t] = "git_exit"
    /\ sv_shared' = [sv_shared EXCEPT !.git_lock = NoOne]
    /\ Goto(t, "status")
    /\ UNCHANGED <<sv_local, sv_fs>>
    /\ SaveFrame

\* self.rollback_info[project_name]["status"] = ..., then save_rollback_info
RecordStatus(t) ==
    /\ sv_pc[t] = "status"
    /\ sv_shared' = WriteShared(t, "rollback_info")
    /\ Goto(t, "build")
    /\ sv_local' = [sv_local EXCEPT ![t] = [NoSave EXCEPT !.back = "done"]]
    /\ UNCHANGED sv_fs
    /\ SaveFrame

\* save_rollback_info: combined_info is built from the four shared maps
SaveBuild(t) ==
    /\ sv_pc[t] = "build"
    /\ sv_shared' = [sv_shared EXCEPT !.accesses = @ \union
                                         {Access(t, what, "read") : what \in SharedMaps}]
    /\ sv_local' = [sv_local EXCEPT ![t].doc = sv_shared.version]
    /\ Goto(t, "open")
    /\ UNCHANGED sv_fs
    /\ SaveFrame

\* open(temp_file, 'w'): the file of that name is emptied, or created
SaveOpen(t) ==
    /\ sv_pc[t] = "open"
    /\ IF sv_fs.tmp # NoFile
       THEN /\ sv_fs' = [sv_fs EXCEPT !.inodes[sv_fs.tmp] = EmptyFile]
            /\ sv_local' = [sv_local EXCEPT ![t].handle = sv_fs.tmp, ![t].pos = 1]
       ELSE /\ sv_fs' = [sv_fs EXCEPT !.inodes = Append(@, EmptyFile),
                                      !.tmp = Len(sv_fs.inodes) + 1]
            /\ sv_local' = [sv_local EXCEPT ![t].handle = Len(sv_fs.inodes) + 1,
                                            ![t].pos = 1]
    /\ Goto(t, "write")
    /\ UNCHANGED sv_shared
    /\ SaveFrame

\* json.dump: one write at the position of the handle
SaveWrite(t) ==
    /\ sv_pc[t] = "write"
    /\ sv_fs' = [sv_fs EXCEPT !.inodes[sv_local[t].handle][sv_local[t].pos] = sv_local[t].doc]
    /\ sv_local' = [sv_local EXCEPT ![t].pos = @ + 1]
    /\ Goto(t, IF sv_local[t].pos = DocChunks THEN "replace" ELSE "write")
    /\ UNCHANGED sv_shared
    /\ SaveFrame

\* temp_file.replace(self.rollback_info_file); FileNotFoundError when the
\* temporary file is no longer there, which the except clause logs
SaveReplace(t) ==
    /\ sv_pc[t] = "replace"
    /\ IF sv_fs.tmp # NoFile
       THEN /\ sv_fs' = [sv_fs EXCEPT !.target = sv_fs.tmp, !.tmp = NoFile]
            /\ UNCHANGED sv_shared
       ELSE /\ sv_shared' = [sv_shared EXCEPT !.lost = @ \union {t}]
            /\ UNCHANGED sv_fs
    /\ Goto(t, sv_local[t].back)
    /\ sv_local' = [sv_local EXCEPT ![t] = NoSave]
    /\ SaveFrame

SaveInit ==
    /\ FleetAtRest
    /\ RepoInit(DefaultGeneral, NoCommit, 1)
    /\ FingerprintAtRest
    /\ DeployAtRest
    /\ FetchAtRest
    /\ SaveAtRest
    /\ StashAtRest
    /\ LocksAtRest

SaveNext ==
    \E t \in Threads :
        \/ RecordStart(t)
        \/ RecordStartExit(t)
        \/ GitStageEnter(t)
        \/ StoreCheckpoint(t)
        \/ GitStageExit(t)
        \/ RecordStatus(t)
        \/ SaveBuild(t)
        \/ SaveOpen(t)
        \/ SaveWrite(t)
        \/ SaveReplace(t)

SaveSpec == SaveInit /\ [][SaveNext]_vars

----------------------------------------------------------------------------
(* State file and data lock *)

Complete(content) == \E d \in 1..(4 * MaxWorkers + 1) : content = Document(d)

\* C25: the state file always holds one complete document, and no call of
\* save_rollback_info has failed because its temporary file was gone.
C25_StateFileNeverPartial ==
    /\ Complete(sv_fs.inodes[sv_fs.target])
    /\ sv_shared.lost = {}

\* C26: every access to the result list, the statistics, the rollback map
\* and the checkpoint map was made by a thread holding self.data_lock.
C26_AccessesUnderDataLock ==
    \A a \in sv_shared.accesses : a.locked

----------------------------------------------------------------------------
(* check_git_status on a project that is a git repository: the status       *)
(* command, the auto-stash with its cleanup, and the safe-mode refusal.  A   *)
(* stash entry is [id, auto]: the number of its creation and whether its     *)
(* message is the auto-updater's.  stash@{k} is the entry at position k + 1. *)

StatusFrame == UNCHANGED <<fleetvars, gitvars, fpvars, deployvars, fetchvars, savevars,
                           thvars, stash_cfg>>

\* the number the next stash entry gets
NextStashId == status_log.pushes + 1

\* git stash drop stash@{k}: the entry is removed and the later ones move up
StashDrop(list, k) ==
    IF k + 1 \in 1..Len(list)
    THEN [i \in 1..(Len(list) - 1) |-> IF i < k + 1 THEN list[i] ELSE list[i + 1]]
    ELSE list

\* the references of the lines of `git stash list` that carry the
\* auto-updater message, in the order of the output
AutoStashRefs(list) ==
    LET RECURSIVE refs(_)
        refs(i) == IF i > Len(list) THEN <<>>
                   ELSE (IF list[i].auto THEN <<i - 1>> ELSE <<>>) \o refs(i + 1)
    IN refs(1)

\* the loop of _cleanup_old_stashes over the first lines of the listing
RECURSIVE DropLoop(_, _, _, _)
DropLoop(list, refs, i, n) ==
    IF i > n THEN list ELSE DropLoop(StashDrop(list, refs[i]), refs, i + 1, n)

\* _cleanup_old_stashes after a successful listing
cleanup_old_stashes(list) ==
    LET refs == AutoStashRefs(list)
    IN IF Len(refs) > KeepStashes
       THEN DropLoop(list, refs, 1, Len(refs) - KeepStashes)
       ELSE list

\* check_git_status from `git status --porcelain` on
check_git_status_call(status_ok, dirty, stash_ok, list_ok) ==
    LET l0 == [NoStatus EXCEPT !.calls = 1, !.pushes = status_log.pushes,
                               !.dirty = dirty, !.cmds = <<"status">>]
        pushed == <<[id |-> NextStashId, auto |-> TRUE]>> \o stash_list
        l1 == [l0 EXCEPT !.cmds = @ \o <<"stash push">>]
    IN  \* what is not read is held at one value
        /\ ~status_ok => ~dirty
        /\ ~(dirty /\ stash_cfg.auto_stash) => (stash_ok /\ list_ok)
        /\ ~stash_ok => list_ok
        /\ (dirty /\ stash_cfg.auto_stash /\ stash_ok) => status_log.pushes < MaxStashes
        /\ IF ~status_ok
           THEN /\ status_log' = [l0 EXCEPT !.ret = "False"]
                /\ UNCHANGED stash_list
           ELSE IF ~dirty
           THEN /\ status_log' = [l0 EXCEPT !.ret = "True"]
                /\ UNCHANGED stash_list
           ELSE IF stash_cfg.auto_stash
           THEN IF ~stash_ok
                THEN /\ status_log' = [l1 EXCEPT !.ret = "False"]
                     /\ UNCHANGED stash_list
                ELSE /\ stash_list' = IF list_ok THEN cleanup_old_stashes(pushed) ELSE pushed
                     /\ status_log' =
                          [l1 EXCEPT !.pushes = @ + 1,
                                     !.created = NextStashId,
                                     !.stash_ref = 0,
                                     !.before = pushed,
                                     !.cleaned = list_ok,
                                     !.rollback = "has_stash",
                                     !.cmds = @ \o <<"stash list --grep", "stash list">>
                                              \o (IF stash_list' # pushed
                                                  THEN <<"stash drop">> ELSE <<>>),
                                     !.ret = "True"]
           ELSE IF stash_cfg.safe_merge_only
           THEN /\ status_log' = [l0 EXCEPT !.ret = "False"]
                /\ UNCHANGED stash_list
           ELSE /\ status_log' = [l0 EXCEPT !.rollback = "uncommitted_changes",
                                            !.ret = "True"]
                /\ UNCHANGED stash_list
        /\ UNCHANGED shutdown_event
        /\ StatusFrame

\* the user stashes work of their own between two runs; what the last call
\* did is followed no further
user_stash ==
    /\ status_log.pushes < MaxStashes
    /\ stash_list' = <<[id |-> NextStashId, auto |-> FALSE]>> \o stash_list
    /\ status_log' = [NoStatus EXCEPT !.pushes = status_log.pushes + 1]
    /\ UNCHANGED shutdown_event
    /\ StatusFrame

StatusInit ==
    /\ FleetAtRest
    /\ RepoInit(DefaultGeneral, NoCommit, 1)
    /\ FingerprintAtRest
    /\ DeployAtRest
    /\ FetchAtRest
    /\ SaveAtRest
    /\ LocksAtRest
    /\ stash_cfg \in [auto_stash : BOOLEAN, safe_merge_only : BOOLEAN]
    /\ stash_list = <<>>
    /\ status_log = NoStatus

StatusNext ==
    \/ \E status_ok, dirty, stash_ok, list_ok \in BOOLEAN :
          check_git_status_call(status_ok, dirty, stash_ok, list_ok)
    \/ user_stash

StatusSpec == StatusInit /\ [][StatusNext]_vars

----------------------------------------------------------------------------
(* Stash retention and safe mode *)

AutoIds(list) == {list[i].id : i \in {j \in 1..Len(list) : list[j].auto}}

\* the n largest elements of a set of numbers
Largest(S, n) == {x \in S : Cardinality({y \in S : y > x}) < n}

StashCleaned == status_log.created # 0 /\ status_log.cleaned

\* C32: after the cleanup that follows a new auto-stash, the auto-updater
\* entries left in the stash are the KeepStashes newest of those there were,
\* and the recorded reference still names the entry just created.
C32_CleanupKeepsNewest ==
    StashCleaned =>
      /\ AutoIds(stash_list) = Largest(AutoIds(status_log.before), KeepStashes)
      /\ status_log.stash_ref + 1 \in 1..Len(stash_list)
      /\ stash_list[status_log.stash_ref + 1].id = status_log.created

\* C34: with safe_merge_only, a status check that found a dirty working
\* tree has returned False having run the status command alone.
C34_SafeModeRefusesDirtyTree ==
    (stash_cfg.safe_merge_only /\ status_log.dirty) =>
      (status_log.ret = "False" /\ status_log.cmds = <<"status">>)

----------------------------------------------------------------------------
(* The four locks.  Every thread that updates a project goes through        *)
(* update_project (or _perform_git_update_only and                           *)
(* _perform_docker_update_only): the start record under data_lock, the git   *)
(* stage under _global_git_lock, the deployment under _global_docker_lock,   *)
(* with _log_safe taking log_lock wherever a line is logged.  Each lock is   *)
(* a threading.Lock taken by a with statement.  The main thread takes        *)
(* data_lock in update_all_projects before the threads start and after they  *)
(* ended, and holds no lock while they run.                                  *)

LockFrame ==
    UNCHANGED <<fleetvars, gitvars, fpvars, deployvars, fetchvars, savevars, stashvars>>

\* with lock: entered by the thread once the lock is free
Enter(t, from, lock, to) ==
    /\ th_pc[t] = from
    /\ th_lock[lock] = NoOne
    /\ th_lock' = [th_lock EXCEPT ![lock] = t]
    /\ th_pc' = [th_pc EXCEPT ![t] = to]
    /\ UNCHANGED th_n
    /\ LockFrame

\* variant: the lock is taken with acquire() and released before the normal
\* end of the section only, so a return from inside the section keeps it
Leave_HeldOnReturn(t, from, lock, tos) ==
    /\ th_pc[t] = from
    /\ \E to \in tos :
         /\ th_pc' = [th_pc EXCEPT ![t] = to]
         /\ th_lock' = IF to = "done" THEN th_lock ELSE [th_lock EXCEPT ![lock] = NoOne]
    /\ UNCHANGED th_n
    /\ LockFrame

\* the end of a with block, reached by falling through, by a return or by an
\* exception: the lock is released
Leave(t, from, lock, tos) ==
    /\ th_pc[t] = from
    /\ th_lock' = [th_lock EXCEPT ![lock] = NoOne]
    /\ \E to \in tos : th_pc' = [th_pc EXCEPT ![t] = to]
    /\ UNCHANGED th_n
    /\ LockFrame

\* a step that takes and releases no lock
Go(t, from, tos) ==
    /\ th_pc[t] = from
    /\ \E to \in tos : th_pc' = [th_pc EXCEPT ![t] = to]
    /\ UNCHANGED th_lock
    /\ UNCHANGED th_n
    /\ LockFrame

\* where a line is logged: before the git stage, inside it, inside the
\* deployment; and the position after the line
LogSites == {"announce", "git", "docker"}
InLog == [p \in LogSites |->
            CASE p = "announce" -> "announce_log" [] p = "git" -> "git_log"
              [] OTHER -> "docker_log"]
AfterLog == [p \in LogSites |->
            CASE p = "announce" -> "wait_git" [] p = "git" -> "status"
              [] OTHER -> "deploy"]

\* update_project: with self.data_lock: rollback_info[project] = {...}
start_record(t) == Enter(t, "idle", "data", "rec")
start_record_exit(t) == Leave(t, "rec", "data", {"announce"})

\* _log_safe: with self.log_lock: the logger is called
log_safe(t) == \E p \in LogSites : Enter(t, p, "log", InLog[p])
log_safe_exit(t) == \E p \in LogSites : Leave(t, InLog[p], "log", {AfterLog[p]})

\* _perform_git_update: with _global_git_lock
git_lock_enter(t) == Enter(t, "wait_git", "git", "git")

\* check_git_status inside the stage: a clean tree, a dirty tree that is
\* recorded in rollback_info, or a refusal (stash failed, safe mode)
status_checked(t) == Go(t, "status", {"stage", "wait_data", "git_return"})
status_record(t) == Enter(t, "wait_data", "data", "status_rec")
status_record_exit(t) == Leave(t, "status_rec", "data", {"stage"})

\* the stage up to the fetch: it goes on, returns early after the failure
\* handler, or raises
stage_begun(t) == Go(t, "stage", {"fetch", "git_return"})

Loop(t, pc, n) ==
    /\ th_pc' = [th_pc EXCEPT ![t] = pc]
    /\ th_n' = [th_n EXCEPT ![t] = n]
    /\ UNCHANGED th_lock
    /\ LockFrame

\* one iteration of the loop of run_command for the fetch, which is retried:
\* for attempt in range(max_retries); the stage ends after the fetch, or
\* returns early when the fetch failed
run_command_step(t) ==
    /\ th_pc[t] = "fetch"
    /\ LET n == th_n[t] IN
       IF n.retry >= netcfg.network_retry_count
       THEN Loop(t, "git_return", NoLoop)
       ELSE \E ok \in BOOLEAN :
              IF ok THEN Loop(t, "git_end", NoLoop)
              ELSE IF n.retry = netcfg.network_retry_count - 1
                   THEN Loop(t, "git_return", NoLoop)
                   ELSE Loop(t, "fetch", [n EXCEPT !.retry = @ + 1])

\* the with block of the stage is left: on to the deployment, or out of
\* update_project
git_lock_exit(t) ==
    \/ Leave(t, "git_end", "git", {"wait_docker", "done"})
    \/ Leave(t, "git_return", "git", {"done"})

\* _perform_docker_deployment: with _global_docker_lock
docker_lock_enter(t) == Enter(t, "wait_docker", "docker", "docker")

\* one iteration of the loop of rebuild_and_start_docker up to the health
\* check: for attempt in range(max_attempts), `up --build -d`
rebuild_step(t) ==
    /\ th_pc[t] = "deploy"
    /\ LET n == th_n[t] IN
       IF n.attempt >= dcfg.max_restart_attempts
       THEN Loop(t, "docker_end", NoLoop)
       ELSE \E up_ok \in BOOLEAN :
              IF up_ok THEN Loop(t, "poll", [n EXCEPT !.poll = 0])
              ELSE Loop(t, "deploy", [n EXCEPT !.attempt = @ + 1])

\* variant: a health check that did not pass starts the attempts again from
\* the first
health_poll_StartsOver(t) ==
    /\ th_pc[t] = "poll"
    /\ LET n == th_n[t] IN
       IF n.poll >= dcfg.health_polls
       THEN Loop(t, "deploy", [n EXCEPT !.attempt = 0, !.poll = 0])
       ELSE \E verdict \in {"passed", "failed", "again"} :
              CASE verdict = "passed" -> Loop(t, "docker_end", NoLoop)
                [] verdict = "failed" -> Loop(t, "deploy", [n EXCEPT !.attempt = 0, !.poll = 0])
                [] OTHER -> Loop(t, "poll", [n EXCEPT !.poll = @ + 1])

\* one iteration of the polling loop of _detailed_health_check, which ends
\* when the time is over: the services passed, one of them exited, or they
\* are polled again
health_poll(t) ==
    /\ th_pc[t] = "poll"
    /\ LET n == th_n[t] IN
       IF n.poll >= dcfg.health_polls
       THEN Loop(t, "deploy", [n EXCEPT !.attempt = @ + 1, !.poll = 0])
       ELSE \E verdict \in {"passed", "failed", "again"} :
              CASE verdict = "passed" -> Loop(t, "docker_end", NoLoop)
                [] verdict = "failed" ->
                     Loop(t, "deploy", [n EXCEPT !.attempt = @ + 1, !.poll = 0])
                [] OTHER -> Loop(t, "poll", [n EXCEPT !.poll = @ + 1])

\* the deployment ends, or returns False after a failed rebuild, or raises
docker_lock_exit(t) == Leave(t, "docker_end", "docker", {"done"})

LockInit ==
    /\ FleetAtRest
    /\ RepoInit(DefaultGeneral, NoCommit, 1)
    /\ FingerprintAtRest
    /\ SaveAtRest
    /\ StashAtRest
    /\ LocksAtRest
    /\ dpc = "idle"
    /\ dlog = NoDeploy
    \* the loops at their longest, and a command that is not run at all
    /\ dcfg \in [max_restart_attempts : {MaxAttempts}, verify_docker_health : {TRUE},
                  use_simple_health_check : {FALSE}, health_polls : {MaxPolls},
                  rebuild_on_config_change : {TRUE}, auto_prune : {FALSE},
                  prune_scope : {"project"}]
    /\ fetch_pc = "idle"
    /\ fetch_log = NoFetch
    /\ netcfg \in [network_retry_count : {0, MaxRetries}, ssl_verify : {TRUE}]

ThreadStep(t) ==
    \/ start_record(t)
    \/ start_record_exit(t)
    \/ log_safe(t)
    \/ log_safe_exit(t)
    \/ git_lock_enter(t)
    \/ status_checked(t)
    \/ status_record(t)
    \/ status_record_exit(t)
    \/ stage_begun(t)
    \/ run_command_step(t)
    \/ git_lock_exit(t)
    \/ docker_lock_enter(t)
    \/ rebuild_step(t)
    \/ health_poll(t)
    \/ docker_lock_exit(t)

LockNext == \E t \in Threads : ThreadStep(t)

LockSpec == LockInit /\ [][LockNext]_vars

\* every subprocess returns within its timeout and the scheduler runs every
\* thread that can run: a thread that can take a step takes one
LiveSpec == LockSpec /\ \A t \in Threads : WF_vars(ThreadStep(t))

\* the lock the thread needs for its next step, if that step is a with
\* statement
Wanted(t) ==
    CASE th_pc[t] \in {"idle", "wait_data"} -> "data"
      [] th_pc[t] \in LogSites -> "log"
      [] th_pc[t] = "wait_git" -> "git"
      [] th_pc[t] = "wait_docker" -> "docker"
      [] OTHER -> None

Blocked(t) == Wanted(t) # None /\ th_lock[Wanted(t)] # NoOne

\* the thread that t waits for (t itself if it waits for none)
WaitsFor(t) == IF Blocked(t) THEN th_lock[Wanted(t)] ELSE t

\* t is on a cycle of waiting threads of at most n steps
RECURSIVE WaitCycle(_, _, _)
WaitCycle(t, u, n) ==
    /\ n > 0
    /\ Blocked(u)
    /\ \/ WaitsFor(u) = t
       \/ WaitCycle(t, WaitsFor(u), n - 1)

Holds(t) == {l \in Locks : th_lock[l] = t}

\* C39: no reachable state of a fleet update is a deadlock: while a thread
\* has not returned some thread can take a step, the threads never wait for
\* one another in a cycle, no thread waits for a lock it holds, and a thread
\* that returned, by whatever exit, holds no lock
C39_NoDeadlock ==
    /\ (\E t \in Threads : th_pc[t] # "done") => ENABLED LockNext
    /\ \A t \in Threads :
         /\ ~WaitCycle(t, t, MaxWorkers)
         /\ Wanted(t) # None => th_lock[Wanted(t)] # t
         /\ th_pc[t] \in {"idle", "done"} => Holds(t) = {}

\* the holder of the git lock is inside the record of a dirty tree, holding
\* the git lock and the data lock, while another thread waits for the git lock
C39_Witness ==
    \E t, u \in Threads :
      /\ t # u
      /\ th_pc[t] = "status_rec"
      /\ Holds(t) = {"git", "data"}
      /\ th_pc[u] = "wait_git"
      /\ Blocked(u)

\* C40: when every subprocess returns, the fleet update returns: the retry
\* loop of a command, the attempt loop of the rebuild and the polling loop of
\* the health check end, and every thread that started on a project ends
\* with the project's result
C40_EveryProjectEnds ==
    \A t \in Threads : (th_pc[t] # "idle") ~> (th_pc[t] = "done")

\* a thread is in the last iteration of the polling loop of the last
\* attempt of the rebuild while another thread has ended
C40_Witness ==
    \E t, u \in Threads :
      /\ th_pc[t] = "poll"
      /\ th_n[t].attempt = MaxAttempts - 1
      /\ th_n[t].poll = MaxPolls
      /\ th_pc[u] = "done"

====
